---- MODULE Spec2Model ----
(***************************************************************************)
(* Masterminds/semver: versions, their order, constraint atoms, the        *)
(* membership test and the constraint algebra (canonicalise, Intersection, *)
(* IsSubset).                                                              *)
(*                                                                         *)
(* Go strings are modelled as sequences of byte values, so that string     *)
(* concatenation, equality and Go's bytewise string order are the ones the *)
(* code uses.  The regular expressions of the parsers are modelled by      *)
(* their capture groups: a text is given as the record of the groups the   *)
(* regular expression would capture from it.                               *)
(***************************************************************************)
EXTENDS Integers, Sequences, FiniteSets, TLC

\* ------------------------------------------------------------------ bounds

\* Largest major/minor/patch number written in a constraint or version text.
MaxSeg == 1

\* Largest number of a prerelease that IncPrerelease is called on.
MaxPreNum == 9

\* ----------------------------------------------------------------- strings

Digits == 48..57

chDot == <<46>>
chDash == <<45>>
chPlus == <<43>>
chSpace == <<32>>
chV == <<118>>
chX == <<120>>
chStar == <<42>>
strOrOr == <<32, 124, 124, 32>>

\* The operators of constraintOps, as Go strings.
OpText(op) ==
  CASE op = "" -> <<>>
    [] op = "=" -> <<61>>
    [] op = "!=" -> <<33, 61>>
    [] op = ">" -> <<62>>
    [] op = "<" -> <<60>>
    [] op = ">=" -> <<62, 61>>
    [] op = "=>" -> <<61, 62>>
    [] op = "<=" -> <<60, 61>>
    [] op = "=<" -> <<61, 60>>
    [] op = "~" -> <<126>>
    [] op = "~>" -> <<126, 62>>
    [] op = "^" -> <<94>>

\* Go's comparison of strings: bytewise lexicographic, a proper prefix first.
RECURSIVE StrCmp(_, _)
StrCmp(s, t) ==
  IF s = <<>> THEN (IF t = <<>> THEN 0 ELSE -1)
  ELSE IF t = <<>> THEN 1
  ELSE IF Head(s) < Head(t) THEN -1
  ELSE IF Head(s) > Head(t) THEN 1
  ELSE StrCmp(Tail(s), Tail(t))

\* fmt's %d of a non-negative integer.
RECURSIVE Itoa(_)
Itoa(n) == IF n < 10 THEN <<48 + n>> ELSE Itoa(n \div 10) \o <<48 + (n % 10)>>

AllDigits(s) == \A i \in 1..Len(s) : s[i] \in Digits

\* The value of a string of decimal digits.
RECURSIVE DigitsValue(_)
DigitsValue(s) ==
  IF s = <<>> THEN 0
  ELSE 10 * DigitsValue(SubSeq(s, 1, Len(s) - 1)) + (s[Len(s)] - 48)

\* strconv.ParseInt(s, 10, 64) returns no error: an optional sign followed by
\* at least one digit; up to 18 digits always fit in 64 bits.
ParseIntOk(s) ==
  LET body == IF s # <<>> /\ Head(s) \in {43, 45} THEN Tail(s) ELSE s
  IN body # <<>> /\ AllDigits(body) /\ Len(body) <= 18

\* strings.Split(s, "."): the parts between the dots; one empty part for "".
RECURSIVE Split(_)
Split(s) ==
  IF \A i \in 1..Len(s) : s[i] # 46 THEN <<s>>
  ELSE LET k == CHOOSE i \in 1..Len(s) :
                  s[i] = 46 /\ \A j \in 1..(i - 1) : s[j] # 46
       IN <<SubSeq(s, 1, k - 1)>> \o Split(SubSeq(s, k + 1, Len(s)))

\* strings.Join(parts, sep)
RECURSIVE Join(_, _)
Join(parts, sep) ==
  IF parts = <<>> THEN <<>>
  ELSE IF Len(parts) = 1 THEN parts[1]
  ELSE parts[1] \o sep \o Join(Tail(parts), sep)

\* ---------------------------------------------------------------- versions

\* A version text as the capture groups of SemVerRegex / cvRegex: an optional
\* leading v, the three segments without their dots (<<>> when absent), the
\* prerelease and the metadata without their "-" and "+" (<<>> when absent).
VersionText(t) ==
  (IF t.v THEN chV ELSE <<>>) \o t.major
    \o (IF t.minor # <<>> THEN chDot \o t.minor ELSE <<>>)
    \o (IF t.patch # <<>> THEN chDot \o t.patch ELSE <<>>)
    \o (IF t.pre # <<>> THEN chDash \o t.pre ELSE <<>>)
    \o (IF t.meta # <<>> THEN chPlus \o t.meta ELSE <<>>)

\* NewVersion on a text that versionRegex matches (all segments numeric):
\* absent minor and patch default to 0.
NewVersion(t) ==
  [major |-> DigitsValue(t.major),
   minor |-> IF t.minor # <<>> THEN DigitsValue(t.minor) ELSE 0,
   patch |-> IF t.patch # <<>> THEN DigitsValue(t.patch) ELSE 0,
   pre |-> t.pre,
   metadata |-> t.meta,
   original |-> VersionText(t)]

\* Version.String
VersionString(v) ==
  Itoa(v.major) \o chDot \o Itoa(v.minor) \o chDot \o Itoa(v.patch)
    \o (IF v.pre # <<>> THEN chDash \o v.pre ELSE <<>>)
    \o (IF v.metadata # <<>> THEN chPlus \o v.metadata ELSE <<>>)

IncPatch(v) == [v EXCEPT !.pre = <<>>, !.patch = @ + 1]

IncMinor(v) == [v EXCEPT !.pre = <<>>, !.patch = 0, !.minor = @ + 1]

IncMajor(v) == [v EXCEPT !.pre = <<>>, !.patch = 0, !.minor = 0, !.major = @ + 1]

\* The bytes SemVerRegex allows in a prerelease or metadata identifier.
IdentChars == Digits \cup (65..90) \cup (97..122) \cup {45}

\* The first index of byte ch in s, 0 when s does not hold it.
IndexByte(s, ch) ==
  IF \A i \in 1..Len(s) : s[i] # ch THEN 0
  ELSE CHOOSE i \in 1..Len(s) : s[i] = ch /\ \A j \in 1..(i - 1) : s[j] # ch

\* [0-9A-Za-z\-]+(\.[0-9A-Za-z\-]+)* matches the whole of s.
matchIdentifiers(s) ==
  \A i \in 1..Len(Split(s)) :
    /\ Split(s)[i] # <<>>
    /\ \A j \in 1..Len(Split(s)[i]) : Split(s)[i][j] \in IdentChars

\* ([0-9]+)(\.[0-9]+)?(\.[0-9]+)? matches the whole of s.
matchSegments(s) ==
  /\ Len(Split(s)) \in 1..3
  /\ \A i \in 1..Len(Split(s)) : Split(s)[i] # <<>> /\ AllDigits(Split(s)[i])

\* s without its part from the first byte ch on, and that part without ch.
beforeByte(s, ch) ==
  IF IndexByte(s, ch) = 0 THEN s ELSE SubSeq(s, 1, IndexByte(s, ch) - 1)

afterByte(s, ch) ==
  IF IndexByte(s, ch) = 0 THEN <<>> ELSE SubSeq(s, IndexByte(s, ch) + 1, Len(s))

NoMatch == [nil |-> TRUE]

\* The capture groups of "^" + SemVerRegex + "$" on core, "-" pre when hasPre
\* and "+" meta when hasMeta; NoMatch when the expression does not match.
versionRegexGroups(hasV, core, hasPre, pre, hasMeta, meta) ==
  IF /\ matchSegments(core)
     /\ hasPre => matchIdentifiers(pre)
     /\ hasMeta => matchIdentifiers(meta)
  THEN [v |-> hasV,
        major |-> Split(core)[1],
        minor |-> IF Len(Split(core)) >= 2 THEN Split(core)[2] ELSE <<>>,
        patch |-> IF Len(Split(core)) >= 3 THEN Split(core)[3] ELSE <<>>,
        pre |-> pre, meta |-> meta]
  ELSE NoMatch

\* versionRegex.FindStringSubmatch(s) after the optional leading v: segments
\* hold no "-" and a prerelease no "+", so the first "+" starts the metadata
\* and the first "-" before it starts the prerelease.
versionRegexBody(hasV, s) ==
  versionRegexGroups(hasV,
    beforeByte(beforeByte(s, 43), 45),
    IndexByte(beforeByte(s, 43), 45) # 0, afterByte(beforeByte(s, 43), 45),
    IndexByte(s, 43) # 0, afterByte(s, 43))

versionRegex(s) ==
  IF s # <<>> /\ Head(s) = 118 THEN versionRegexBody(TRUE, Tail(s))
  ELSE versionRegexBody(FALSE, s)

ErrInvalidSemVer == [err |-> "Invalid Semantic Version"]

ErrParsing == [err |-> "Error parsing version segment"]

\* strconv.ParseInt(s, 10, 32) of a string of digits returns no error.
ParseInt32Ok(s) == Len(s) <= 9 \/ (Len(s) = 10 /\ StrCmp(s, Itoa(2147483647)) <= 0)

\* NewVersion on the groups m of a match.
newVersionOfMatch(m) ==
  IF m = NoMatch THEN ErrInvalidSemVer
  ELSE IF \E seg \in {m.major, m.minor, m.patch} : ~ParseInt32Ok(seg)
  THEN ErrParsing
  ELSE NewVersion(m)

\* NewVersion(s) on a Go string.
NewVersionString(s) == newVersionOfMatch(versionRegex(s))

\* The longest prefix of s whose bytes are all in set.
RECURSIVE prefixIn(_, _)
prefixIn(s, set) ==
  IF s = <<>> \/ Head(s) \notin set THEN <<>>
  ELSE <<Head(s)>> \o prefixIn(Tail(s), set)

dropN(s, n) == SubSeq(s, n + 1, Len(s))

\* parts[2] and parts[3] of ^([a-z]+)([.-]?)([0-9]+)? on a string whose
\* letters [a-z]+ have been consumed.
sepOf(rest) == IF rest # <<>> /\ Head(rest) \in {45, 46} THEN <<Head(rest)>> ELSE <<>>

numOf(rest) == prefixIn(dropN(rest, Len(sepOf(rest))), Digits)

\* Version.IncPrerelease: the value it returns and the version it leaves.
IncPrerelease(v) ==
  IF Len(v.pre) = 0 THEN [ok |-> FALSE, v |-> v]
  ELSE IF prefixIn(v.pre, 97..122) = <<>> THEN [ok |-> FALSE, v |-> v]
  ELSE [ok |-> TRUE,
        v |-> [v EXCEPT !.pre =
                 prefixIn(v.pre, 97..122)
                   \o sepOf(dropN(v.pre, Len(prefixIn(v.pre, 97..122))))
                   \o (IF numOf(dropN(v.pre, Len(prefixIn(v.pre, 97..122)))) # <<>>
                       THEN Itoa(DigitsValue(numOf(dropN(v.pre, Len(prefixIn(v.pre, 97..122))))) + 1)
                       ELSE Itoa(1))]]

\* Version.SetPrelease: MatchString of ^([a-z]+)(.-)?([0-9]+)? needs only a
\* leading lower-case letter; the two later groups are optional and the
\* expression is not anchored at the end.
SetPrelease(v, prerelease) ==
  IF Len(prerelease) > 0 /\ prefixIn(prerelease, 97..122) = <<>>
  THEN [ok |-> FALSE, v |-> v]
  ELSE [ok |-> TRUE, v |-> [v EXCEPT !.pre = prerelease]]

compareSegment(v, o) == IF v < o THEN -1 ELSE IF v > o THEN 1 ELSE 0

comparePrePart(s, o) ==
  IF s = o THEN 0
  ELSE IF o = <<>> THEN (IF ~ParseIntOk(s) THEN -1 ELSE 1)
  ELSE IF s = <<>> THEN (IF ~ParseIntOk(o) THEN 1 ELSE -1)
  ELSE IF StrCmp(s, o) > 0 THEN 1 ELSE -1

\* The loop of comparePrerelease from index i on; parts beyond the end of a
\* prerelease are the empty string.
RECURSIVE comparePreLoop(_, _, _)
comparePreLoop(sparts, oparts, i) ==
  LET slen == Len(sparts)
      olen == Len(oparts)
      l == IF olen > slen THEN olen ELSE slen
  IN IF i > l THEN 0
     ELSE LET stemp == IF i <= slen THEN sparts[i] ELSE <<>>
              otemp == IF i <= olen THEN oparts[i] ELSE <<>>
              d == comparePrePart(stemp, otemp)
          IN IF d # 0 THEN d ELSE comparePreLoop(sparts, oparts, i + 1)

comparePrerelease(v, o) == comparePreLoop(Split(v), Split(o), 1)

\* Version.Compare
Compare(v, o) ==
  IF compareSegment(v.major, o.major) # 0 THEN compareSegment(v.major, o.major)
  ELSE IF compareSegment(v.minor, o.minor) # 0 THEN compareSegment(v.minor, o.minor)
  ELSE IF compareSegment(v.patch, o.patch) # 0 THEN compareSegment(v.patch, o.patch)
  ELSE IF v.pre = <<>> /\ o.pre = <<>> THEN 0
  ELSE IF v.pre = <<>> THEN 1
  ELSE IF o.pre = <<>> THEN -1
  ELSE comparePrerelease(v.pre, o.pre)

LessThan(v, o) == Compare(v, o) < 0

GreaterThan(v, o) == Compare(v, o) > 0

Equal(v, o) == Compare(v, o) = 0

\* ------------------------------------------------------------------- atoms

isX(x) == x \in {chX, chStar, <<88>>}

ZeroSeg == <<48>>

\* The version text parseConstraint hands to NewVersion: wildcard and absent
\* segments are filled with zero, keeping the prerelease group m[6].
pivotText(t) ==
  IF isX(t.major) \/ t.major = <<>>
    THEN [v |-> FALSE, major |-> ZeroSeg, minor |-> ZeroSeg, patch |-> ZeroSeg,
          pre |-> <<>>, meta |-> <<>>]
  ELSE IF isX(t.minor) \/ t.minor = <<>>
    THEN [v |-> FALSE, major |-> t.major, minor |-> ZeroSeg, patch |-> ZeroSeg,
          pre |-> t.pre, meta |-> <<>>]
  ELSE IF isX(t.patch) \/ t.patch = <<>>
    THEN [v |-> FALSE, major |-> t.major, minor |-> t.minor, patch |-> ZeroSeg,
          pre |-> t.pre, meta |-> <<>>]
  ELSE t

\* parseConstraint on a text that constraintRegex matches with operator op
\* (m[1]) and version text t (m[2]).
parseConstraint(op, t) ==
  LET majorX == isX(t.major) \/ t.major = <<>>
      minorX == isX(t.minor) \/ t.minor = <<>>
      patchX == isX(t.patch) \/ t.patch = <<>>
  IN [con |-> NewVersion(pivotText(t)),
      orig |-> VersionText(t),
      origfunc |-> op,
      minorDirty |-> ~majorX /\ minorX,
      dirty |-> majorX \/ minorX \/ patchX,
      patchDirty |-> ~majorX /\ ~minorX /\ patchX]

\* constraint.string
string(c) == OpText(c.origfunc) \o c.orig

\* The prerelease test that opens the check functions: the version is a
\* prerelease and the constraint's version is not.
prereleaseOnly(v, c) == v.pre # <<>> /\ c.con.pre = <<>>

constraintNotEqual(v, c) ==
  IF c.dirty /\ prereleaseOnly(v, c) THEN FALSE
  ELSE IF c.dirty /\ c.con.major # v.major THEN TRUE
  ELSE IF c.dirty /\ c.con.minor # v.minor /\ ~c.minorDirty THEN TRUE
  ELSE IF c.dirty /\ c.minorDirty THEN FALSE
  ELSE IF c.dirty /\ c.con.patch # v.patch /\ ~c.patchDirty THEN TRUE
  ELSE IF c.dirty /\ c.patchDirty
    THEN IF v.pre # <<>> \/ c.con.pre # <<>>
           THEN comparePrerelease(v.pre, c.con.pre) # 0
           ELSE FALSE
  ELSE ~Equal(v, c.con)

constraintGreaterThan(v, c) ==
  IF prereleaseOnly(v, c) THEN FALSE
  ELSE IF ~c.dirty THEN Compare(v, c.con) = 1
  ELSE IF v.major > c.con.major THEN TRUE
  ELSE IF v.major < c.con.major THEN FALSE
  ELSE IF c.minorDirty THEN FALSE
  ELSE IF c.patchDirty THEN v.minor > c.con.minor
  ELSE Compare(v, c.con) = 1

constraintLessThan(v, c) ==
  IF prereleaseOnly(v, c) THEN FALSE
  ELSE Compare(v, c.con) < 0

constraintGreaterThanEqual(v, c) ==
  IF prereleaseOnly(v, c) THEN FALSE
  ELSE Compare(v, c.con) >= 0

constraintLessThanEqual(v, c) ==
  IF prereleaseOnly(v, c) THEN FALSE
  ELSE IF ~c.dirty THEN Compare(v, c.con) <= 0
  ELSE IF v.major > c.con.major THEN FALSE
  ELSE IF v.major = c.con.major /\ v.minor > c.con.minor /\ ~c.minorDirty THEN FALSE
  ELSE TRUE

constraintTilde(v, c) ==
  IF prereleaseOnly(v, c) THEN FALSE
  ELSE IF LessThan(v, c.con) THEN FALSE
  ELSE IF c.con.major = 0 /\ c.con.minor = 0 /\ c.con.patch = 0
          /\ ~c.minorDirty /\ ~c.patchDirty THEN TRUE
  ELSE IF v.major # c.con.major THEN FALSE
  ELSE IF v.minor # c.con.minor /\ ~c.minorDirty THEN FALSE
  ELSE TRUE

constraintTildeOrEqual(v, c) ==
  IF prereleaseOnly(v, c) THEN FALSE
  ELSE IF c.dirty THEN constraintTilde(v, c)
  ELSE Equal(v, c.con)

constraintCaret(v, c) ==
  IF prereleaseOnly(v, c) THEN FALSE
  ELSE IF LessThan(v, c.con) THEN FALSE
  ELSE IF c.con.major > 0 \/ c.minorDirty THEN v.major = c.con.major
  ELSE IF c.con.major = 0 /\ v.major > 0 THEN FALSE
  ELSE IF c.con.minor > 0 \/ c.patchDirty THEN v.minor = c.con.minor
  ELSE c.con.patch = v.patch

\* constraint.check: the function constraintOps maps the operator to.
check(c, v) ==
  CASE c.origfunc \in {"", "="} -> constraintTildeOrEqual(v, c)
    [] c.origfunc = "!=" -> constraintNotEqual(v, c)
    [] c.origfunc = ">" -> constraintGreaterThan(v, c)
    [] c.origfunc = "<" -> constraintLessThan(v, c)
    [] c.origfunc \in {">=", "=>"} -> constraintGreaterThanEqual(v, c)
    [] c.origfunc \in {"<=", "=<"} -> constraintLessThanEqual(v, c)
    [] c.origfunc \in {"~", "~>"} -> constraintTilde(v, c)
    [] c.origfunc = "^" -> constraintCaret(v, c)

\* ------------------------------------------------------------- Constraints

\* The nil *Constraints.
Nil == [nil |-> TRUE]

\* Check with the loop over the groups turned around: true unless some group
\* has a constraint that fails.
CheckNoGroupFails(cs, v) ==
  \A k \in 1..Len(cs.constraints) :
    \A i \in 1..Len(cs.constraints[k]) : check(cs.constraints[k][i], v)

\* The loop of Constraints.Check over the groups: a group passes when every
\* constraint of it passes.
Check(cs, v) ==
  \E k \in 1..Len(cs.constraints) :
    \A i \in 1..Len(cs.constraints[k]) : check(cs.constraints[k][i], v)

\* The error texts, without the version and constraint they name.
PrereleaseMessage ==
  "is a prerelease version and the constraint is only looking for release versions"

\* The error c.check(v) returns when it returns false: the prerelease message
\* where the function opens with the prerelease test (constraintNotEqual only
\* for a dirty constraint), else the function's own message about c.orig.
checkError(c, v) ==
  IF prereleaseOnly(v, c) /\ (c.origfunc # "!=" \/ c.dirty)
    THEN [msg |-> PrereleaseMessage, orig |-> <<>>]
    ELSE [msg |-> "check failed", orig |-> c.orig]

\* The inner loop of Validate over the constraints of the group o from index i
\* on: joy, the errors e and the prerelease mark.
RECURSIVE validateGroup(_, _, _, _)
validateGroup(o, v, i, st) ==
  IF i > Len(o) THEN st
  ELSE IF o[i].con.pre = <<>> /\ v.pre # <<>>
    THEN validateGroup(o, v, i + 1,
           [joy |-> FALSE,
            e |-> IF st.prerelease THEN st.e
                  ELSE Append(st.e, [msg |-> PrereleaseMessage, orig |-> <<>>]),
            prerelease |-> TRUE])
  ELSE IF ~check(o[i], v)
    THEN validateGroup(o, v, i + 1,
           [joy |-> FALSE, e |-> Append(st.e, checkError(o[i], v)),
            prerelease |-> st.prerelease])
  ELSE validateGroup(o, v, i + 1, st)

\* The state of Validate after the group o.
validateStep(o, v, st) == validateGroup(o, v, 1, [st EXCEPT !.joy = TRUE])

\* The outer loop of Validate from group k on.
RECURSIVE validateLoop(_, _, _, _)
validateLoop(cs, v, k, st) ==
  IF st.joy THEN [ok |-> TRUE, errors |-> <<>>]
  ELSE IF k > Len(cs.constraints) THEN [ok |-> FALSE, errors |-> st.e]
  ELSE validateLoop(cs, v, k + 1, validateStep(cs.constraints[k], v, st))

\* Constraints.Validate
Validate(cs, v) ==
  validateLoop(cs, v, 1, [joy |-> FALSE, e |-> <<>>, prerelease |-> FALSE])

\* The text of one group in Constraints.String: its constraints joined by
\* single spaces.
groupString(g) == Join([i \in 1..Len(g) |-> string(g[i])], chSpace)

\* Constraints.String
String(cs) ==
  Join([k \in 1..Len(cs.constraints) |-> groupString(cs.constraints[k])], strOrOr)

\* -------------------------------------------------------------- Intersects

\* What constraintExpandTilde and constraintExpandCaret return for a dirty
\* constraint: ">=0.0.0" with every dirty flag set.
expandedDirty ==
  <<[con |-> NewVersion([v |-> FALSE, major |-> ZeroSeg, minor |-> ZeroSeg,
                         patch |-> ZeroSeg, pre |-> <<>>, meta |-> <<>>]),
     orig |-> ZeroSeg \o chDot \o ZeroSeg \o chDot \o ZeroSeg,
     origfunc |-> ">=", minorDirty |-> TRUE, dirty |-> TRUE, patchDirty |-> TRUE]>>

\* base and the "<" constraint on the version next.
expandedRange(con, next) ==
  <<[con EXCEPT !.origfunc = ">="],
    [con |-> next, orig |-> VersionString(next), origfunc |-> "<",
     minorDirty |-> FALSE, dirty |-> FALSE, patchDirty |-> FALSE]>>

constraintExpandTilde(con) ==
  IF con.dirty THEN expandedDirty
  ELSE IF con.minorDirty THEN expandedRange(con, IncMajor(con.con))
  ELSE expandedRange(con, IncMinor(con.con))

constraintExpandCaret(con) ==
  IF con.dirty THEN expandedDirty
  ELSE IF con.con.major = 0 \/ con.minorDirty
    THEN IF con.con.minor = 0 \/ con.patchDirty
           THEN expandedRange(con, IncPatch(con.con))
           ELSE expandedRange(con, IncMinor(con.con))
  ELSE expandedRange(con, IncMajor(con.con))

\* constraintExpandOps[con.origfunc](con)
constraintExpand(con) ==
  IF con.origfunc = "^" THEN constraintExpandCaret(con)
  ELSE constraintExpandTilde(con)

\* The expansion loop of Intersects over the constraints c1s of a group from
\* index i (counted from 1) on: the element at the index of the constraint in
\* c1s is cut out of the expanded slice and the expansion is appended.
RECURSIVE expandLoop(_, _, _)
expandLoop(c1s, expanded, i) ==
  IF i > Len(c1s) THEN expanded
  ELSE IF c1s[i].origfunc \in {"~", "~>", "^"}
    THEN expandLoop(c1s,
           SubSeq(expanded, 1, i - 1) \o SubSeq(expanded, i + 1, Len(expanded))
             \o constraintExpand(c1s[i]),
           i + 1)
  ELSE expandLoop(c1s, expanded, i + 1)

IncreasingOps == {">=", "=>", ">"}

DecreasingOps == {"<=", "=<", "<"}

InclusiveOps == {">=", "=>", "<=", "=<"}

\* constraint.intersects: "true", "false" when it returns false without an
\* error, "error" when the check it delegates to fails (every check function
\* returns an error with false).
intersects(con, c2) ==
  IF string(con) = string(c2) THEN "true"
  ELSE IF con.origfunc \in {"", "="}
    THEN (IF check(c2, con.con) THEN "true" ELSE "error")
  ELSE IF c2.origfunc \in {"", "="}
    THEN (IF check(con, c2.con) THEN "true" ELSE "error")
  ELSE IF con.origfunc = "!=" /\ c2.origfunc = "!=" THEN "true"
  ELSE IF \/ con.origfunc \in IncreasingOps /\ c2.origfunc \in IncreasingOps
          \/ con.origfunc \in DecreasingOps /\ c2.origfunc \in DecreasingOps
          \/ /\ Equal(con.con, c2.con)
             /\ con.origfunc \in InclusiveOps /\ c2.origfunc \in InclusiveOps
          \/ /\ LessThan(con.con, c2.con)
             /\ con.origfunc \in IncreasingOps /\ c2.origfunc \in DecreasingOps
          \/ /\ GreaterThan(con.con, c2.con)
             /\ con.origfunc \in DecreasingOps /\ c2.origfunc \in IncreasingOps
    THEN "true"
  ELSE "false"

\* The two nested loops of Intersects over the expanded groups from the pair
\* (i, j) on: "true" when every pair intersects, else what the first pair that
\* does not intersect returned.
RECURSIVE intersectsLoop(_, _, _, _)
intersectsLoop(e1, e2, i, j) ==
  IF i > Len(e1) THEN "true"
  ELSE IF j > Len(e2) THEN intersectsLoop(e1, e2, i + 1, 1)
  ELSE IF intersects(e1[i], e2[j]) = "true" THEN intersectsLoop(e1, e2, i, j + 1)
  ELSE intersects(e1[i], e2[j])

\* The loops of Intersects over the groups from the pair (k, l) on: an error
\* ends the whole call with false.
RECURSIVE IntersectsFrom(_, _, _, _)
IntersectsFrom(cs, cs2, k, l) ==
  IF k > Len(cs.constraints) THEN FALSE
  ELSE IF l > Len(cs2.constraints) THEN IntersectsFrom(cs, cs2, k + 1, 1)
  ELSE IF intersectsLoop(expandLoop(cs.constraints[k], cs.constraints[k], 1),
                         expandLoop(cs2.constraints[l], cs2.constraints[l], 1),
                         1, 1) = "true" THEN TRUE
  ELSE IF intersectsLoop(expandLoop(cs.constraints[k], cs.constraints[k], 1),
                         expandLoop(cs2.constraints[l], cs2.constraints[l], 1),
                         1, 1) = "error" THEN FALSE
  ELSE IntersectsFrom(cs, cs2, k, l + 1)

\* Constraints.Intersects
Intersects(cs, cs2) == IntersectsFrom(cs, cs2, 1, 1)

\* ----------------------------------------------------------------- algebra

\* A *constraint that may be nil is a sequence of at most one constraint.
NoBound == <<>>

\* The end of better, with diff := cand.con.Compare(cur.con).
betterDiff(cur, cand, dir, diff) ==
  IF diff # 0 THEN diff * dir > 0
  ELSE IF dir > 0 THEN cur.origfunc = ">=" /\ cand.origfunc = ">"
  ELSE cur.origfunc = "<=" /\ cand.origfunc = "<"

better(cur, cand, dir) ==
  IF cand = NoBound THEN FALSE
  ELSE IF cur = NoBound THEN TRUE
  ELSE betterDiff(cur[1], cand[1], dir, Compare(cand[1].con, cur[1].con))

\* The loop of bounds from index i on, with the bounds found so far.
RECURSIVE boundsLoop(_, _, _, _)
boundsLoop(cs, i, lo, hi) ==
  IF i > Len(cs) THEN [lo |-> lo, hi |-> hi]
  ELSE IF cs[i].origfunc \in {">", ">="}
    THEN boundsLoop(cs, i + 1, IF better(lo, <<cs[i]>>, 1) THEN <<cs[i]>> ELSE lo, hi)
  ELSE IF cs[i].origfunc \in {"<", "<="}
    THEN boundsLoop(cs, i + 1, lo, IF better(hi, <<cs[i]>>, -1) THEN <<cs[i]>> ELSE hi)
  ELSE boundsLoop(cs, i + 1, lo, hi)

bounds(cs) == boundsLoop(cs, 1, NoBound, NoBound)

\* The end of simplify: the bounds that are not nil, lo first.
simplifyBounds(bd) == bd.lo \o bd.hi

simplify(cs) ==
  IF Len(cs) <= 1 THEN cs
  ELSE simplifyBounds(bounds(cs))

\* The end of isValid, with compare := lo.con.Compare(hi.con).
isValidCompare(lo, hi, compare) ==
  ~(compare > 0 \/ (compare = 0 /\ (lo.origfunc # ">=" \/ hi.origfunc # "<=")))

\* isValid after lo, hi := bounds(cs).
isValidBounds(bd) ==
  IF bd.lo = NoBound \/ bd.hi = NoBound THEN TRUE
  ELSE isValidCompare(bd.lo[1], bd.hi[1], Compare(bd.lo[1].con, bd.hi[1].con))

isValid(cs) ==
  IF Len(cs) = 0 THEN FALSE
  ELSE isValidBounds(bounds(cs))

clone(c, op) ==
  [con |-> c.con, orig |-> VersionString(c.con), origfunc |-> op,
   minorDirty |-> FALSE, dirty |-> FALSE, patchDirty |-> FALSE]

upperConstraint(v) ==
  [con |-> v, orig |-> VersionString(v), origfunc |-> "<",
   minorDirty |-> FALSE, dirty |-> FALSE, patchDirty |-> FALSE]

createRange(c, upper) == <<clone(c, ">="), upperConstraint(upper)>>

expandWildcard(c) ==
  IF c.minorDirty THEN <<clone(c, ">="), upperConstraint(IncMajor(c.con))>>
  ELSE IF c.patchDirty THEN <<clone(c, ">="), upperConstraint(IncMinor(c.con))>>
  ELSE <<clone(c, ">=")>>

expandConstraint(c) ==
  IF c.origfunc = "^"
    THEN createRange(c, IF c.con.major > 0 THEN IncMajor(c.con) ELSE IncMinor(c.con))
  ELSE IF c.origfunc \in {"~", "~>"}
    THEN createRange(c, IF c.minorDirty THEN IncMajor(c.con) ELSE IncMinor(c.con))
  ELSE IF c.origfunc \in {"", "="} /\ c.dirty
    THEN expandWildcard(c)
  ELSE IF c.origfunc = "<=" /\ c.dirty
    THEN <<upperConstraint(IF c.minorDirty THEN IncMajor(c.con) ELSE IncMinor(c.con))>>
  ELSE <<c>>

RECURSIVE expand(_)
expand(cs) ==
  IF cs = <<>> THEN <<>>
  ELSE expandConstraint(Head(cs)) \o expand(Tail(cs))

groupKey(cs) ==
  IF cs = <<>> THEN <<>>
  ELSE Join([i \in 1..Len(cs) |-> string(cs[i])], chSpace) \o chSpace

\* The body of the loop of canonicalise without the seen map: every valid
\* group is added.
canonicalGroupUnseen(clean, groups) ==
  IF isValid(clean) THEN Append(groups, clean) ELSE groups

\* The body of the loop of canonicalise on clean := simplify(expand(group)):
\* the groups kept so far, with clean added when it is valid and not seen.
canonicalGroup(clean, groups) ==
  IF isValid(clean) /\ \A j \in 1..Len(groups) : groupKey(groups[j]) # groupKey(clean)
    THEN Append(groups, clean)
    ELSE groups

\* The loop of canonicalise from group i on: the valid simplified groups not
\* seen before, in the order met.
RECURSIVE canonicalGroups(_, _, _)
canonicalGroups(gs, i, groups) ==
  IF i > Len(gs) THEN groups
  ELSE canonicalGroups(gs, i + 1, canonicalGroup(simplify(expand(gs[i])), groups))

\* slices.SortFunc on groups whose keys are pairwise different: the groups in
\* increasing order of groupKey.
RECURSIVE sortGroups(_), sortFrom(_, _)
sortGroups(groups) ==
  IF groups = <<>> THEN <<>>
  ELSE sortFrom(groups,
                CHOOSE k \in 1..Len(groups) :
                  \A j \in 1..Len(groups) :
                    StrCmp(groupKey(groups[k]), groupKey(groups[j])) <= 0)

\* The group at index m, then the other groups sorted.
sortFrom(groups, m) ==
  <<groups[m]>> \o sortGroups([j \in 1..(Len(groups) - 1) |->
                                IF j < m THEN groups[j] ELSE groups[j + 1]])

canonicalise(c) ==
  IF c = Nil THEN Nil
  ELSE [constraints |-> sortGroups(canonicalGroups(c.constraints, 1, <<>>)),
        IncludePrerelease |-> FALSE]

\* The exact constraints of a group, and the others, each in order.
splitExact(cs) ==
  [exact |-> SelectSeq(cs, LAMBDA c : c.origfunc \in {"", "="}),
   ranges |-> SelectSeq(cs, LAMBDA c : c.origfunc \notin {"", "="})]

\* One ea for every pair (ea, eb) of equal versions, in loop order.
RECURSIVE exactIntersection(_, _)
exactIntersection(a, b) ==
  IF a = <<>> THEN <<>>
  ELSE [j \in 1..Len(SelectSeq(b, LAMBDA eb : Equal(Head(a).con, eb.con))) |-> Head(a)]
         \o exactIntersection(Tail(a), b)

\* The loop of satisfiesAll over the constraints, with incPre as set before it.
\* The switch of satisfiesAll on c.origfunc, with compare := v.Compare(c.con).
satisfiesCompare(c, compare) ==
  CASE c.origfunc = ">" -> ~(compare <= 0)
    [] c.origfunc = ">=" -> ~(compare < 0)
    [] c.origfunc = "<" -> ~(compare >= 0)
    [] c.origfunc = "<=" -> ~(compare > 0)
    [] OTHER -> TRUE

satisfiesLoop(v, cs, incPre) ==
  \A i \in 1..Len(cs) :
    /\ ~(v.pre # <<>> /\ ~incPre)
    /\ satisfiesCompare(cs[i], Compare(v, cs[i].con))

satisfiesAll(v, cs, incPre) ==
  satisfiesLoop(v, cs, incPre \/ \E i \in 1..Len(cs) : cs[i].con.pre # <<>>)

filterExact(exact, cs, incPre) ==
  SelectSeq(exact, LAMBDA e : satisfiesAll(e.con, cs, incPre))

\* intersect after ea, ra := splitExact(a) and eb, rb := splitExact(b).
intersectSplit(a, b, sa, sb, incPre) ==
  IF Len(sa.ranges) = 0 /\ Len(sb.ranges) = 0 THEN exactIntersection(sa.exact, sb.exact)
  ELSE IF Len(sa.ranges) = 0 THEN filterExact(sa.exact, b, incPre)
  ELSE IF Len(sb.ranges) = 0 THEN filterExact(sb.exact, a, incPre)
  ELSE simplify(a \o b)

intersect(a, b, incPre) == intersectSplit(a, b, splitExact(a), splitExact(b), incPre)

\* The groups collected by the nested loops of Intersection: intersect(ga, gb)
\* for every group ga of ca and, within it, every group gb of cb.
pairGroups(ca, cb, incPre) ==
  [n \in 1..(Len(ca) * Len(cb)) |->
     intersect(ca[((n - 1) \div Len(cb)) + 1], cb[((n - 1) % Len(cb)) + 1], incPre)]

\* The end of Intersection on the collected groups out.
intersectionOf(out, includePre) ==
  IF Len(out) = 0 THEN [constraints |-> <<>>, IncludePrerelease |-> FALSE]
  ELSE [constraints |->
          canonicalise([constraints |-> out, IncludePrerelease |-> FALSE]).constraints,
        IncludePrerelease |-> includePre]

Intersection(a, b) ==
  IF a = Nil \/ b = Nil THEN Nil
  ELSE intersectionOf(pairGroups(canonicalise(a).constraints, canonicalise(b).constraints,
                                 a.IncludePrerelease \/ b.IncludePrerelease),
                      a.IncludePrerelease \/ b.IncludePrerelease)

IsSubset(sub, sup) ==
  sub # Nil /\ sup # Nil /\ String(Intersection(sub, sup)) = String(canonicalise(sub))

\* ------------------------------------------------------------------ inputs

Nums == 0..MaxSeg

SegTexts == {Itoa(n) : n \in Nums}

Ops == {"", "=", "!=", ">", "<", ">=", "=>", "<=", "=<", "~", "~>", "^"}

preA == <<97>>
preB == <<98>>
preC == <<99>>

Tok(major, minor, patch, pre) ==
  [v |-> FALSE, major |-> major, minor |-> minor, patch |-> patch,
   pre |-> pre, meta |-> <<>>]

\* Version texts with all three segments written as numbers.
FullTexts == {Tok(M, m, p, pre) : M \in SegTexts, m \in SegTexts, p \in SegTexts,
                                  pre \in {<<>>, preB}}

\* Version texts with absent or wildcard segments.
DirtyTexts ==
  {Tok(M, <<>>, <<>>, <<>>) : M \in SegTexts}
    \cup {Tok(M, m, <<>>, <<>>) : M \in SegTexts, m \in SegTexts}
    \cup {Tok(M, chX, <<>>, <<>>) : M \in SegTexts}
    \cup {Tok(M, m, chX, pre) : M \in SegTexts, m \in SegTexts, pre \in {<<>>, preB}}
    \cup {Tok(chStar, <<>>, <<>>, <<>>)}

\* Version texts X.0.0, and X.0.0-b for the largest X.
MajorTexts ==
  {Tok(M, ZeroSeg, ZeroSeg, <<>>) : M \in SegTexts}
    \cup {Tok(Itoa(MaxSeg), ZeroSeg, ZeroSeg, preB)}

\* What NewConstraint returns for a text of the given groups: IncludePrerelease
\* is not set by the parser.
Parsed(groups) == [constraints |-> groups, IncludePrerelease |-> FALSE]

AllAtoms == {parseConstraint(op, t) : op \in Ops, t \in FullTexts \cup DirtyTexts}

MajorAtoms == {parseConstraint(op, t) : op \in Ops, t \in MajorTexts}

SugarAtoms ==
  {parseConstraint(op, t) : op \in {"", "^", "~", ">", "<="},
                            t \in {Tok(Itoa(MaxSeg), <<>>, <<>>, <<>>),
                                    Tok(chStar, <<>>, <<>>, <<>>)}}

BoundAtoms ==
  {parseConstraint(op, Tok(M, ZeroSeg, ZeroSeg, <<>>)) :
     op \in {">=", ">", "<", "<=", "!=", "="}, M \in SegTexts}

LowerAtoms == {x \in BoundAtoms : x.origfunc \in {">=", ">", "!=", "="}}

UpperAtoms == {x \in BoundAtoms : x.origfunc \in {"<", "<=", "!="} /\ x.con.major = MaxSeg}

UnionAtoms == {x \in BoundAtoms : x.origfunc \in {">=", "<", "="}}

\* One constraint; two constraints joined by AND; two groups joined by "||".
Singles(atoms) == {Parsed(<< <<x>> >>) : x \in atoms}

Doubles(first, second) == {Parsed(<< <<x, y>> >>) : x \in first, y \in second}

Unions(first, second) == {Parsed(<< <<x>>, <<y>> >>) : x \in first, y \in second}

\* The operands of the binary operations.
PairPool ==
  Singles(MajorAtoms \cup SugarAtoms)
    \cup Doubles(LowerAtoms, UpperAtoms)
    \cup {cs \in Unions(UnionAtoms, UnionAtoms) :
            cs.constraints[1][1].con.major >= cs.constraints[2][1].con.major}

\* The operands of the unary operations.
UnaryPool ==
  Singles(AllAtoms) \cup Doubles(AllAtoms, BoundAtoms) \cup Unions(AllAtoms, BoundAtoms)

\* The operands of the three-way intersections.
TriplePool ==
  Singles({x \in MajorAtoms : x.origfunc \in {"", ">=", ">", "<", "<=", "!="}})

\* The Constraints with no group: what Intersection returns when nothing is
\* left, and the zero value of the struct.
Empty == [constraints |-> <<>>, IncludePrerelease |-> FALSE]

\* The versions the checks are run on: every segment up to one beyond the
\* largest a constraint of the pools can hold, releases and prereleases
\* below, at and above the prerelease of the pools.
Versions ==
  {NewVersion(Tok(Itoa(M), Itoa(m), Itoa(p), pre)) :
     M \in 0..(MaxSeg + 1), m \in 0..(MaxSeg + 1), p \in 0..(MaxSeg + 1),
     pre \in {<<>>, preA, preB, preC}}

\* The versions the Check action draws from.
ProbeVersions == {x \in Versions : x.pre \in {<<>>, preB}}

\* The versions Compare is run on: prereleases of one or two identifiers,
\* numeric and alphanumeric.
Idents == {preA, preB, Itoa(2), Itoa(10)}

PreTexts == Idents \cup {i \o chDot \o j : i \in Idents, j \in Idents}

CompareVersions ==
  {NewVersion(Tok(M, ZeroSeg, p, pre)) :
     M \in SegTexts, p \in SegTexts, pre \in PreTexts \cup {<<>>}}

\* Build metadata: none, "m" and "n".
metaM == <<109>>
metaN == <<110>>
Metas == {<<>>, metaM, metaN}

\* The text t with the metadata m.
WithMeta(t, m) == [t EXCEPT !.meta = m]

\* A constraint text before parsing: groups of <<operator, version text>>.
ParseText(groups) ==
  Parsed([k \in 1..Len(groups) |->
            [i \in 1..Len(groups[k]) |-> parseConstraint(groups[k][i][1], groups[k][i][2])]])

\* The constraint text with the metadata of every version text replaced by
\* f of it.
MapMeta(groups, f) ==
  [k \in 1..Len(groups) |->
     [i \in 1..Len(groups[k]) |->
        <<groups[k][i][1], WithMeta(groups[k][i][2], f[groups[k][i][2].meta])>>]]

\* Replacements of metadata: drop it, swap "m" and "n", make it "m".
MetaMaps ==
  {[m \in Metas |-> <<>>],
   [m \in Metas |-> IF m = metaM THEN metaN ELSE IF m = metaN THEN metaM ELSE m],
   [m \in Metas |-> metaM]}

\* Constraint texts with metadata: every operator on a full, a wildcard and
\* a prerelease version, and ANDs and ORs of exact and bound atoms.
MetaAtomTexts ==
  {<<op, WithMeta(t, m)>> : op \in {"", ">="},
                            t \in {Tok(Itoa(MaxSeg), ZeroSeg, ZeroSeg, <<>>)},
                            m \in Metas}

MetaTexts ==
  {<< <<<<op, WithMeta(t, m)>>>> >> :
     op \in Ops,
     t \in {Tok(Itoa(MaxSeg), ZeroSeg, ZeroSeg, <<>>),
             Tok(Itoa(MaxSeg), <<>>, <<>>, <<>>),
             Tok(Itoa(MaxSeg), ZeroSeg, ZeroSeg, preB)},
     m \in {metaM, metaN}}
    \cup {<< <<p, q>> >> : p \in MetaAtomTexts, q \in MetaAtomTexts}
    \cup {<< <<p>>, <<q>> >> : p \in MetaAtomTexts, q \in MetaAtomTexts}

\* The second operands of the metadata runs.
MetaOthers ==
  {ParseText(<< <<<<op, WithMeta(t, m)>>>> >>) :
     op \in {"", ">=", "<", "^", "!="},
     t \in {Tok(Itoa(MaxSeg), ZeroSeg, ZeroSeg, <<>>), Tok(ZeroSeg, ZeroSeg, ZeroSeg, <<>>)},
     m \in {<<>>, metaM}}
    \cup {ParseText(<< <<p>>, <<q>> >>) :
            p \in {<<"", Tok(Itoa(MaxSeg), ZeroSeg, ZeroSeg, <<>>)>>},
            q \in MetaAtomTexts}

\* Versions with and without metadata "m".
MetaVersions ==
  {NewVersion(WithMeta(Tok(M, ZeroSeg, ZeroSeg, pre), m)) :
     M \in {Itoa(MaxSeg), Itoa(MaxSeg + 1)}, pre \in {<<>>, preB},
     m \in {<<>>, metaM}}

\* Version texts handed to NewVersion: with and without a leading v, with
\* one, two or three segments, a prerelease and metadata.
RoundTripTexts ==
  {VersionText([v |-> hasV, major |-> M, minor |-> t[1], patch |-> t[2],
                pre |-> pre, meta |-> m]) :
     hasV \in BOOLEAN, M \in SegTexts,
     t \in {<<<<>>, <<>>>>, <<ZeroSeg, <<>>>>, <<ZeroSeg, Itoa(MaxSeg)>>},
     pre \in {<<>>, preB, preB \o chDot \o Itoa(1), Itoa(1)},
     m \in {<<>>, metaM}}

\* The versions NewVersion returns without an error.
RoundTripVersions ==
  {NewVersionString(s) : s \in {t \in RoundTripTexts :
                                  "err" \notin DOMAIN NewVersionString(t)}}

\* Prerelease strings handed to SetPrelease: "", "b", "b2", "b-3", "b_", "b.",
\* "1" and "B".
SetPreleaseTexts ==
  {<<>>, preB, preB \o Itoa(2), preB \o chDash \o Itoa(3), preB \o <<95>>,
   preB \o chDot, Itoa(1), <<66>>}

\* The operands of Intersects: the operands of the binary operations and
\* groups of two ~ or ^ constraints.
IntersectsPool ==
  PairPool
    \cup Doubles({x \in MajorAtoms : x.origfunc \in {"~", "^"} /\ x.con.pre = <<>>},
                 {x \in MajorAtoms : x.origfunc \in {"~", "^"} /\ x.con.pre = <<>>})

\* The length of the buffer Consume reads into.
ReadBufferSize == 1024

\* The standard input of the README's example, "1.0.4 1.1.1 1.2.2 2.3.4".
ExampleInput ==
  VersionText(Tok(Itoa(1), Itoa(0), Itoa(4), <<>>)) \o chSpace
    \o VersionText(Tok(Itoa(1), Itoa(1), Itoa(1), <<>>)) \o chSpace
    \o VersionText(Tok(Itoa(1), Itoa(2), Itoa(2), <<>>)) \o chSpace
    \o VersionText(Tok(Itoa(2), Itoa(3), Itoa(4), <<>>))

\* Tokens of the other inputs: the versions "1", "2", "3" and the word "x".
CliTokens == {Itoa(1), Itoa(2), Itoa(3), chX}

CliSeparators == {chSpace, <<10>>}

\* Five tokens between spaces: "1 1 1 1 3".
FiveTokens ==
  Itoa(1) \o chSpace \o Itoa(1) \o chSpace \o Itoa(1) \o chSpace \o Itoa(1)
    \o chSpace \o Itoa(3)

\* Standard inputs: the example, five tokens, and one to three tokens between
\* spaces and newlines, each with and without a newline at the end.
CliInputs ==
  {i \o e : i \in {ExampleInput, FiveTokens} \cup CliTokens
                   \cup {t \o s \o u : t \in CliTokens, s \in CliSeparators,
                                       u \in CliTokens}
                   \cup {t \o s \o u \o r \o w :
                           t \in CliTokens, s \in CliSeparators, u \in CliTokens,
                           r \in CliSeparators, w \in CliTokens},
            e \in {<<>>, <<10>>}}

\* ----------------------------------------------------------------- command

\* The bytes bytes.TrimSpace cuts off: tab, newline, vertical tab, form feed,
\* carriage return and space.
WhiteSpace == {9, 10, 11, 12, 13, 32}

RECURSIVE TrimLeft(_)
TrimLeft(d) ==
  IF d # <<>> /\ Head(d) \in WhiteSpace THEN TrimLeft(Tail(d)) ELSE d

RECURSIVE TrimRight(_)
TrimRight(d) ==
  IF d # <<>> /\ d[Len(d)] \in WhiteSpace THEN TrimRight(SubSeq(d, 1, Len(d) - 1))
  ELSE d

\* bytes.TrimSpace
TrimSpace(d) == TrimRight(TrimLeft(d))

\* The body of the loop of BytesSplitter.Write over its separators, for the
\* separator s: st holds the buffer, the chunks written so far and q.
splitOn(st, s) ==
  IF IndexByte(st.buf, s) # 0
    THEN [buf |-> afterByte(st.buf, s),
          out |-> st.out \o (IF beforeByte(st.buf, s) # <<>>
                               THEN <<beforeByte(st.buf, s)>> ELSE <<>>),
          q |-> st.q]
  ELSE [st EXCEPT !.q = TRUE]

\* The outer loop of BytesSplitter.Write and Flush: one pass over the
\* separators ' ' and '\n' after the other until q is set.
RECURSIVE splitLoop(_)
splitLoop(st) ==
  IF st.q THEN st ELSE splitLoop(splitOn(splitOn(st, 32), 10))

\* BytesTrimer.Write and VersionFromByte.Write with SkipInvalid on a chunk:
\* the versions written on to the next stage.
versionFromByte(d) ==
  IF "err" \in DOMAIN NewVersionString(TrimSpace(d)) THEN <<>>
  ELSE <<NewVersionString(TrimSpace(d))>>

\* The chunks written by the splitter, through the trimmer and the version
\* parser, as VersionSorter.Write buffers them.
RECURSIVE sorterWrites(_)
sorterWrites(chunks) ==
  IF chunks = <<>> THEN <<>>
  ELSE versionFromByte(Head(chunks)) \o sorterWrites(Tail(chunks))

\* The stages after st := the loop of the splitter has run.
afterSplit(p, st) ==
  [p EXCEPT !.buf = st.buf, !.all = @ \o sorterWrites(st.out)]

\* BytesSplitter.Write(d), with the stages connected to it.
BytesSplitterWrite(p, d) ==
  afterSplit(p, splitLoop([buf |-> p.buf \o d, out |-> <<>>, q |-> FALSE]))

\* The end of BytesSplitter.Flush: the rest of the buffer is written as one
\* chunk.
flushRest(p) ==
  IF Len(p.buf) > 0 THEN [p EXCEPT !.all = @ \o versionFromByte(p.buf)] ELSE p

\* BytesSplitter.Flush up to the Flush of the connected stages.
BytesSplitterFlush(p) ==
  flushRest(afterSplit(p, splitLoop([buf |-> p.buf, out |-> <<>>, q |-> FALSE])))

\* The orders sort.Sort(sort.Reverse(Collection(all))) may leave: no element
\* is less than a later one; the order of equal versions is not determined.
sortedDescending(all) ==
  {[i \in 1..Len(all) |-> all[f[i]]] : f \in
     {g \in Permutations(1..Len(all)) :
        \A i \in 1..Len(all) : \A j \in (i + 1)..Len(all) :
          ~LessThan(all[g[i]], all[g[j]])}}

\* BytesPrefixer.Write of "- " and "\n" around VersionToByte.Write(w).
prefixed(w) == <<45, 32>> \o VersionString(w) \o <<10>>

\* VersionSorter.Flush with the versions in the order sorted, on through
\* FirstVersionOnly, VersionToByte and BytesPrefixer into the sink.
VersionSorterFlush(p, sorted) ==
  IF sorted = <<>> \/ p.d THEN [p EXCEPT !.all = <<>>]
  ELSE [p EXCEPT !.all = <<>>, !.d = TRUE, !.sink = @ \o prefixed(sorted[1])]

\* A BytesSplitter connected to a stage that keeps the chunks written to it,
\* after st := the loop of the splitter has run.
chunksKept(p, st) == [p EXCEPT !.buf = st.buf, !.chunks = @ \o st.out]

\* BytesSplitter.Write(d) into the stage that keeps the chunks.
splitterWrite(p, d) ==
  chunksKept(p, splitLoop([buf |-> p.buf \o d, out |-> <<>>, q |-> FALSE]))

\* The end of BytesSplitter.Flush into the stage that keeps the chunks.
chunkOfRest(p) ==
  IF Len(p.buf) > 0 THEN [p EXCEPT !.chunks = @ \o <<p.buf>>] ELSE p

\* BytesSplitter.Flush into the stage that keeps the chunks.
splitterFlush(p) ==
  chunkOfRest(chunksKept(p, splitLoop([buf |-> p.buf, out |-> <<>>, q |-> FALSE])))

\* One chunk written by BytesSplitter through BytesTrimer into
\* VersionFromByte with SkipInvalid false, and on through VersionToByte and
\* BytesPrefixer into the sink: an invalid version is an error, returned
\* before the splitter cuts its buffer to rest.
writeChunkValid(st, data, rest) ==
  IF data = <<>> THEN [st EXCEPT !.buf = rest]
  ELSE IF "err" \in DOMAIN NewVersionString(TrimSpace(data)) THEN [st EXCEPT !.err = TRUE]
  ELSE [st EXCEPT !.buf = rest,
                  !.sink = @ \o prefixed(NewVersionString(TrimSpace(data)))]

\* The body of the loop of BytesSplitter.Write over its separators, for the
\* separator s, when a downstream Write may fail.
splitOnValid(st, s) ==
  IF st.err THEN st
  ELSE IF IndexByte(st.buf, s) # 0
    THEN writeChunkValid(st, beforeByte(st.buf, s), afterByte(st.buf, s))
  ELSE [st EXCEPT !.q = TRUE]

\* The outer loop of BytesSplitter.Write and Flush, left at the first error.
RECURSIVE splitLoopValid(_)
splitLoopValid(st) ==
  IF st.q \/ st.err THEN st ELSE splitLoopValid(splitOnValid(splitOnValid(st, 32), 10))

\* The stages after the loop of the splitter has ended in st.
afterSplitValid(p, st) ==
  [p EXCEPT !.buf = st.buf, !.sink = st.sink, !.werr = st.err]

\* BytesSplitter.Write(d) with the stages of "-valid" connected to it.
BytesSplitterWriteValid(p, d) ==
  afterSplitValid(p, splitLoopValid([buf |-> p.buf \o d, sink |-> p.sink,
                                     err |-> FALSE, q |-> FALSE]))

\* The end of BytesSplitter.Flush after its loop has ended in st: the rest
\* of the buffer is written as one chunk, and Flush goes on to the connected
\* stages only when no Write has failed.
flushRestValid(p, st) ==
  IF st.err THEN [p EXCEPT !.err = TRUE]
  ELSE IF Len(st.buf) > 0 /\ writeChunkValid(st, st.buf, st.buf).err
    THEN [p EXCEPT !.err = TRUE]
  ELSE [p EXCEPT !.sink = writeChunkValid(st, st.buf, st.buf).sink,
                 !.flushes = @ + 1, !.err = FALSE]

\* BytesSplitter.Flush with the stages of "-valid" connected to it.
BytesSplitterFlushValid(p) ==
  flushRestValid(p, splitLoopValid([buf |-> p.buf, sink |-> p.sink,
                                    err |-> FALSE, q |-> FALSE]))

\* The end of one turn of the loop of Consume, after p.Write(data): a failed
\* Write sets closed to err2 == io.EOF, which is false; when closed, Flush.
afterWriteValid(p) ==
  IF p.werr THEN [p EXCEPT !.closed = FALSE, !.failed = TRUE]
  ELSE IF p.closed THEN BytesSplitterFlushValid(p)
  ELSE p

\* One turn of the loop of Consume in which Read returns n bytes: closed is
\* n == 0, data is cut to n bytes and written.
consumeTurn(p, n) ==
  afterWriteValid(
    BytesSplitterWriteValid([p EXCEPT !.src = SubSeq(p.src, n + 1, Len(p.src)),
                                      !.data = n, !.closed = (n = 0)],
                            SubSeq(p.src, 1, n)))

\* The constraints handed to bounds: the range operators on the versions of
\* MajorTexts and on the texts "1" and "*".
RangeAtoms == {e \in MajorAtoms \cup SugarAtoms : e.origfunc \in {">", ">=", "<", "<="}}

\* Groups of two and of three range constraints.
RangeLists ==
  {<<e, f>> : e \in RangeAtoms, f \in RangeAtoms}
    \cup {<<e, f, g>> : e \in RangeAtoms, f \in RangeAtoms, g \in RangeAtoms}

\* The group in the opposite order.
reversed(cs) == [i \in 1..Len(cs) |-> cs[Len(cs) + 1 - i]]

\* The releases and prereleases with patch 0 of ProbeVersions.
BoundsVersions == {w \in ProbeVersions : w.patch = 0}

\* ----------------------------------------------------------- state machine

VARIABLES
  pc,   \* the operation applied last
  a,    \* first *Constraints operand
  b,    \* second *Constraints operand
  c,    \* third *Constraints operand
  v,    \* the *Version handed to Check
  x,    \* first *Version handed to Compare
  y,    \* second *Version handed to Compare
  z,    \* third *Version handed to Compare
  res,  \* the values the operations returned
  pipe  \* the command's reader, its stages and what the sink has written

vars == <<pc, a, b, c, v, x, y, z, res, pipe>>

NoVersion == [nil |-> TRUE]

\* The command has not been started.
NoPipe == [nil |-> TRUE]

\* The values of the Constraint interface: any{} (Any()), none{} (None()), a
\* *Version and a rangeConstraint; Panic stands for a call that does not
\* return.
AnyConstraint == [kind |-> "any"]

None == [kind |-> "none"]

Panic == [kind |-> "panic"]

versionConstraint(w) == [kind |-> "version", v |-> w]

\* rangeConstraint.Admits returns nil (no error): the version is within min
\* and max where they are set and is none of the excluded versions.
rangeAdmits(rc, w) ==
  /\ rc.min # NoVersion =>
       (IF rc.includeMin THEN Compare(rc.min, w) # 1 ELSE Compare(rc.min, w) = -1)
  /\ rc.max # NoVersion =>
       (IF rc.includeMax THEN Compare(rc.max, w) # -1 ELSE Compare(rc.max, w) = 1)
  /\ \A i \in 1..Len(rc.excl) : ~Equal(rc.excl[i], w)

\* The min of nr after the first step of the rangeConstraint case.
intersectMin(nr, oc) ==
  IF oc.min = NoVersion THEN nr
  ELSE IF nr.min = NoVersion \/ LessThan(nr.min, oc.min)
    THEN [nr EXCEPT !.min = oc.min, !.includeMin = oc.includeMin]
  ELSE IF Equal(oc.min, nr.min) /\ ~oc.includeMin
    THEN [nr EXCEPT !.includeMin = FALSE]
  ELSE nr

\* The max of nr after the second step.
intersectMax(nr, oc) ==
  IF oc.max = NoVersion THEN nr
  ELSE IF nr.max = NoVersion \/ GreaterThan(nr.max, oc.max)
    THEN [nr EXCEPT !.max = oc.max, !.includeMax = oc.includeMax]
  ELSE IF Equal(oc.max, nr.max) /\ ~oc.includeMax
    THEN [nr EXCEPT !.includeMax = FALSE]
  ELSE nr

\* The end of the rangeConstraint case: nr.min.Equal(nr.max) reads through
\* both pointers, and a nil one ends the call in a panic.
intersectValidate(nr) ==
  IF nr.min = NoVersion /\ nr.max = NoVersion THEN nr
  ELSE IF nr.min = NoVersion \/ nr.max = NoVersion THEN Panic
  ELSE IF Equal(nr.min, nr.max)
    THEN (IF nr.includeMin /\ nr.includeMax THEN versionConstraint(nr.min) ELSE None)
  ELSE IF GreaterThan(nr.min, nr.max) THEN None
  ELSE nr

\* rangeConstraint.Intersect: in the *Version case err is the method value
\* rc.Admits, which is never nil.
rangeIntersect(rc, oc) ==
  CASE oc.kind = "any" -> rc
    [] oc.kind = "none" -> None
    [] oc.kind = "version" -> None
    [] oc.kind = "range" -> intersectValidate(intersectMax(intersectMin(rc, oc), oc))

\* The Intersect of any, none and rangeConstraint.
Intersect(head, oc) ==
  CASE head.kind = "any" -> oc
    [] head.kind = "none" -> None
    [] head.kind = "range" -> rangeIntersect(head, oc)

\* The loop of Intersection over the tail, from index i on.
RECURSIVE intersectionLoop(_, _, _)
intersectionLoop(head, cg, i) ==
  IF i > Len(cg) THEN head
  ELSE IF head = Panic THEN Panic
  ELSE intersectionLoop(Intersect(head, cg[i]), cg, i + 1)

\* Intersection(cg...)
ConstraintIntersection(cg) ==
  IF Len(cg) = 0 THEN None
  ELSE IF Len(cg) = 1 THEN cg[1]
  ELSE IF \E i \in 1..Len(cg) : cg[i].kind \in {"none", "version"}
    THEN cg[CHOOSE i \in 1..Len(cg) :
              /\ cg[i].kind \in {"none", "version"}
              /\ \A j \in 1..(i - 1) : cg[j].kind \notin {"none", "version"}]
  ELSE intersectionLoop(cg[1], cg, 2)

\* The versions of the ranges: M.m.0 for the numbers of the pools.
RangeVersions ==
  {NewVersion(Tok(M, m, ZeroSeg, <<>>)) : M \in SegTexts, m \in SegTexts}

\* Ranges with and without min and max, exclusive and inclusive, with no
\* excluded version or one.
Ranges ==
  {[kind |-> "range", min |-> lo, max |-> hi, includeMin |-> il, includeMax |-> ih,
    excl |-> ex] :
     lo \in RangeVersions \cup {NoVersion}, hi \in RangeVersions \cup {NoVersion},
     il \in BOOLEAN, ih \in BOOLEAN,
     ex \in {<<>>, <<NewVersion(Tok(Itoa(MaxSeg), ZeroSeg, ZeroSeg, <<>>))>>}}

\* The constraints handed to Intersect.
ConstraintPool ==
  Ranges \cup {AnyConstraint, None} \cup {versionConstraint(w) : w \in RangeVersions}

NoResults ==
  [inter |-> Nil, rev |-> Nil, subset |-> FALSE, canon |-> Nil, self |-> Nil,
   left |-> Nil, right |-> Nil,
   chkA |-> FALSE, chkB |-> FALSE, chkInter |-> FALSE, chkCanon |-> FALSE,
   xx |-> 0, xy |-> 0, yx |-> 0, yz |-> 0, xz |-> 0, zy |-> 0,
   subAB |-> FALSE, subCB |-> FALSE, subBA |-> FALSE, subBC |-> FALSE,
   chkC |-> FALSE, chkAz |-> FALSE,
   ok |-> TRUE, str |-> <<>>, parsed |-> NoVersion,
   chkAtom |-> FALSE, expanded |-> <<>>, chkExpanded |-> FALSE,
   intersects |-> FALSE, intersectsRev |-> FALSE, set |-> Nil,
   valid |-> [ok |-> FALSE, errors |-> <<>>],
   bd |-> <<>>, bdRev |-> <<>>, simple |-> <<>>, chkAll |-> FALSE, chkSimple |-> FALSE, canonB |-> Nil,
   ga |-> <<>>, gb |-> <<>>, group |-> <<>>]

\* Intersection(a, b)
DoIntersection ==
  /\ pc = "start"
  /\ b # Nil
  /\ res' = [res EXCEPT !.inter = Intersection(a, b)]
  /\ pc' = "intersected"
  /\ UNCHANGED <<a, b, c, v, x, y, z, pipe>>

\* Intersection(b, a)
DoReverse ==
  /\ pc = "intersected"
  /\ res' = [res EXCEPT !.rev = Intersection(b, a)]
  /\ pc' = "reversed"
  /\ UNCHANGED <<a, b, c, v, x, y, z, pipe>>

\* IsSubset(a, b)
DoIsSubset ==
  /\ pc = "reversed"
  /\ res' = [res EXCEPT !.subset = IsSubset(a, b)]
  /\ pc' = "subset"
  /\ UNCHANGED <<a, b, c, v, x, y, z, pipe>>

\* a.Check(w), b.Check(w) and Intersection(a, b).Check(w)
DoCheck ==
  /\ pc = "subset"
  /\ \E w \in ProbeVersions :
       /\ v' = w
       /\ res' = [res EXCEPT !.chkA = Check(a, w), !.chkB = Check(b, w),
                             !.chkInter = Check(res.inter, w)]
  /\ pc' = "checked"
  /\ UNCHANGED <<a, b, c, x, y, z, pipe>>

\* canonicalise(a)
DoCanonicalise ==
  /\ pc = "start"
  /\ b = Nil
  /\ res' = [res EXCEPT !.canon = canonicalise(a)]
  /\ pc' = "canonical"
  /\ UNCHANGED <<a, b, c, v, x, y, z, pipe>>

\* Intersection(a, a)
DoSelfIntersection ==
  /\ pc = "canonical"
  /\ res' = [res EXCEPT !.self = Intersection(a, a)]
  /\ pc' = "self"
  /\ UNCHANGED <<a, b, c, v, x, y, z, pipe>>

\* a.Check(w) and canonicalise(a).Check(w)
DoCheckCanonical ==
  /\ pc = "self"
  /\ \E w \in ProbeVersions :
       /\ v' = w
       /\ res' = [res EXCEPT !.chkA = Check(a, w), !.chkCanon = Check(res.canon, w)]
  /\ pc' = "checkedCanonical"
  /\ UNCHANGED <<a, b, c, x, y, z, pipe>>

\* Intersection(Intersection(a, b), c)
DoLeft ==
  /\ pc = "start"
  /\ c # Nil
  /\ res' = [res EXCEPT !.left = Intersection(Intersection(a, b), c)]
  /\ pc' = "left"
  /\ UNCHANGED <<a, b, c, v, x, y, z, pipe>>

\* Intersection(a, Intersection(b, c))
DoRight ==
  /\ pc = "left"
  /\ res' = [res EXCEPT !.right = Intersection(a, Intersection(b, c))]
  /\ pc' = "right"
  /\ UNCHANGED <<a, b, c, v, x, y, z, pipe>>

\* x.Compare(x), x.Compare(y), y.Compare(x), y.Compare(z), x.Compare(z)
DoCompare ==
  /\ pc = "versions"
  /\ res' = [res EXCEPT !.xx = Compare(x, x), !.xy = Compare(x, y),
                        !.yx = Compare(y, x), !.yz = Compare(y, z),
                        !.xz = Compare(x, z)]
  /\ pc' = "compared"
  /\ UNCHANGED <<a, b, c, v, x, y, z, pipe>>

\* Two parsed constraints and the binary operations on them.
Init ==
  /\ pc = "start"
  /\ \E p \in PairPool \X PairPool : a = p[1] /\ b = p[2]
  /\ c = Nil
  /\ v = NoVersion /\ x = NoVersion /\ y = NoVersion /\ z = NoVersion
  /\ res = NoResults
  /\ pipe = NoPipe

Next == DoIntersection \/ DoReverse \/ DoIsSubset \/ DoCheck

Spec == Init /\ [][Next]_vars

\* One parsed constraint and the unary operations on it.
InitUnary ==
  /\ pc = "start"
  /\ a \in UnaryPool
  /\ b = Nil
  /\ c = Nil
  /\ v = NoVersion /\ x = NoVersion /\ y = NoVersion /\ z = NoVersion
  /\ res = NoResults
  /\ pipe = NoPipe

NextUnary == DoCanonicalise \/ DoSelfIntersection \/ DoCheckCanonical

SpecUnary == InitUnary /\ [][NextUnary]_vars

\* Three parsed constraints and the two ways to intersect them.
InitTriple ==
  /\ pc = "start"
  /\ \E p \in TriplePool \X TriplePool \X TriplePool :
       a = p[1] /\ b = p[2] /\ c = p[3]
  /\ v = NoVersion /\ x = NoVersion /\ y = NoVersion /\ z = NoVersion
  /\ res = NoResults
  /\ pipe = NoPipe

NextTriple == DoLeft \/ DoRight

SpecTriple == InitTriple /\ [][NextTriple]_vars

\* The empty Constraints against a parsed constraint.
InitEmpty ==
  /\ pc = "start"
  /\ a = Empty
  /\ b \in PairPool \cup Singles(AllAtoms)
  /\ c = Nil
  /\ v = NoVersion /\ x = NoVersion /\ y = NoVersion /\ z = NoVersion
  /\ res = NoResults
  /\ pipe = NoPipe

SpecEmpty == InitEmpty /\ [][Next]_vars

\* IsSubset on a and on c, which differs from a only in metadata, against b.
DoIsSubsetMetadata ==
  /\ pc = "metadata"
  /\ res' = [res EXCEPT !.subAB = IsSubset(a, b), !.subCB = IsSubset(c, b),
                        !.subBA = IsSubset(b, a), !.subBC = IsSubset(b, c)]
  /\ pc' = "metadataSubset"
  /\ UNCHANGED <<a, b, c, v, x, y, z, pipe>>

\* a.Check and c.Check on a version x, and a.Check on z, which differs from x
\* only in metadata.
DoCheckMetadata ==
  /\ pc = "metadataSubset"
  /\ \E w \in MetaVersions :
       /\ x' = w
       /\ z' = [w EXCEPT !.metadata = metaN]
       /\ res' = [res EXCEPT !.chkA = Check(a, w), !.chkC = Check(c, w),
                             !.chkAz = Check(a, [w EXCEPT !.metadata = metaN])]
  /\ pc' = "metadataChecked"
  /\ UNCHANGED <<a, b, c, v, y, pipe>>

\* x.Compare(y), z.Compare(y), y.Compare(x), y.Compare(z)
DoCompareMetadata ==
  /\ pc = "metadataChecked"
  /\ \E w \in MetaVersions :
       /\ y' = w
       /\ res' = [res EXCEPT !.xy = Compare(x, w), !.zy = Compare(z, w),
                             !.yx = Compare(w, x), !.yz = Compare(w, z)]
  /\ pc' = "metadataCompared"
  /\ UNCHANGED <<a, b, c, v, x, z, pipe>>

\* A constraint a, the same text c with other metadata, and a constraint b.
InitMetadata ==
  /\ pc = "metadata"
  /\ \E p \in MetaTexts \X MetaMaps :
       a = ParseText(p[1]) /\ c = ParseText(MapMeta(p[1], p[2]))
  /\ b \in MetaOthers
  /\ v = NoVersion /\ x = NoVersion /\ y = NoVersion /\ z = NoVersion
  /\ res = NoResults
  /\ pipe = NoPipe

NextMetadata == DoIsSubsetMetadata \/ DoCheckMetadata \/ DoCompareMetadata

SpecMetadata == InitMetadata /\ [][NextMetadata]_vars

\* x.IncPatch()
DoIncPatch ==
  /\ pc = "version"
  /\ x.patch <= MaxSeg
  /\ x' = IncPatch(x)
  /\ res' = [res EXCEPT !.ok = TRUE]
  /\ UNCHANGED <<pc, a, b, c, v, y, z, pipe>>

\* x.IncMinor()
DoIncMinor ==
  /\ pc = "version"
  /\ x.minor <= MaxSeg
  /\ x' = IncMinor(x)
  /\ res' = [res EXCEPT !.ok = TRUE]
  /\ UNCHANGED <<pc, a, b, c, v, y, z, pipe>>

\* x.IncMajor()
DoIncMajor ==
  /\ pc = "version"
  /\ x.major <= MaxSeg
  /\ x' = IncMajor(x)
  /\ res' = [res EXCEPT !.ok = TRUE]
  /\ UNCHANGED <<pc, a, b, c, v, y, z, pipe>>

\* x.IncPrerelease(), while the number it writes stays small.
DoIncPrerelease ==
  /\ pc = "version"
  /\ IncPrerelease(x).ok =>
       DigitsValue(numOf(dropN(x.pre, Len(prefixIn(x.pre, 97..122))))) <= MaxPreNum
  /\ x' = IncPrerelease(x).v
  /\ res' = [res EXCEPT !.ok = IncPrerelease(x).ok]
  /\ UNCHANGED <<pc, a, b, c, v, y, z, pipe>>

\* x.SetPrelease(prerelease)
DoSetPrelease ==
  /\ pc = "version"
  /\ \E prerelease \in SetPreleaseTexts :
       /\ x' = SetPrelease(x, prerelease).v
       /\ res' = [res EXCEPT !.ok = SetPrelease(x, prerelease).ok]
  /\ UNCHANGED <<pc, a, b, c, v, y, z, pipe>>

\* x.String()
DoString ==
  /\ pc = "version"
  /\ res' = [res EXCEPT !.str = VersionString(x)]
  /\ pc' = "rendered"
  /\ UNCHANGED <<a, b, c, v, x, y, z, pipe>>

\* NewVersion(x.String())
DoNewVersion ==
  /\ pc = "rendered"
  /\ res' = [res EXCEPT !.parsed = NewVersionString(res.str)]
  /\ pc' = "reparsed"
  /\ UNCHANGED <<a, b, c, v, x, y, z, pipe>>

\* A version returned by NewVersion.
InitRoundTrip ==
  /\ pc = "version"
  /\ a = Nil /\ b = Nil /\ c = Nil
  /\ v = NoVersion /\ y = NoVersion /\ z = NoVersion
  /\ x \in RoundTripVersions
  /\ res = NoResults
  /\ pipe = NoPipe

NextRoundTrip ==
  \/ DoIncPatch
  \/ DoIncMinor
  \/ DoIncMajor
  \/ DoIncPrerelease
  \/ DoSetPrelease
  \/ DoString
  \/ DoNewVersion

SpecRoundTrip == InitRoundTrip /\ [][NextRoundTrip]_vars

\* a.IncludePrerelease = true
DoSetIncludePrerelease ==
  /\ pc = "atom"
  /\ ~a.IncludePrerelease
  /\ a' = [a EXCEPT !.IncludePrerelease = TRUE]
  /\ UNCHANGED <<pc, b, c, v, x, y, z, res, pipe>>

\* a.Check(w), and check(w) of the one constraint a holds.
DoCheckAtom ==
  /\ pc = "atom"
  /\ \E w \in Versions :
       /\ v' = w
       /\ res' = [res EXCEPT !.chkA = Check(a, w),
                             !.chkAtom = check(a.constraints[1][1], w)]
  /\ pc' = "atomChecked"
  /\ UNCHANGED <<a, b, c, x, y, z, pipe>>

\* expandConstraint of the one constraint a holds, and check(v) of every
\* constraint it returns.
DoExpandAtom ==
  /\ pc = "atomChecked"
  /\ res' = [res EXCEPT
       !.expanded = expandConstraint(a.constraints[1][1]),
       !.chkExpanded =
          \A i \in 1..Len(expandConstraint(a.constraints[1][1])) :
            check(expandConstraint(a.constraints[1][1])[i], v)]
  /\ pc' = "atomExpanded"
  /\ UNCHANGED <<a, b, c, v, x, y, z, pipe>>

\* A parsed text of one constraint.
InitAtom ==
  /\ pc = "atom"
  /\ a \in Singles(AllAtoms)
  /\ b = Nil /\ c = Nil
  /\ v = NoVersion /\ x = NoVersion /\ y = NoVersion /\ z = NoVersion
  /\ res = NoResults
  /\ pipe = NoPipe

NextAtom == DoSetIncludePrerelease \/ DoCheckAtom \/ DoExpandAtom

SpecAtom == InitAtom /\ [][NextAtom]_vars

\* a.Intersects(b)
DoIntersects ==
  /\ pc = "operands"
  /\ res' = [res EXCEPT !.intersects = Intersects(a, b)]
  /\ pc' = "intersects"
  /\ UNCHANGED <<a, b, c, v, x, y, z, pipe>>

\* b.Intersects(a)
DoIntersectsReverse ==
  /\ pc = "intersects"
  /\ res' = [res EXCEPT !.intersectsRev = Intersects(b, a)]
  /\ pc' = "intersectsReverse"
  /\ UNCHANGED <<a, b, c, v, x, y, z, pipe>>

\* Two parsed constraints.
InitIntersects ==
  /\ pc = "operands"
  /\ a \in IntersectsPool
  /\ b \in IntersectsPool
  /\ c = Nil
  /\ v = NoVersion /\ x = NoVersion /\ y = NoVersion /\ z = NoVersion
  /\ res = NoResults
  /\ pipe = NoPipe

NextIntersects == DoIntersects \/ DoIntersectsReverse

SpecIntersects == InitIntersects /\ [][NextIntersects]_vars

\* One turn of the loop of ByteReader.Consume in which Read returns n > 0
\* bytes: the buffer is cut to n bytes and the chunk is written to the stages.
DoConsumeRead ==
  /\ pc = "consuming"
  /\ pipe.src # <<>>
  /\ \E n \in 1..(IF pipe.data < Len(pipe.src) THEN pipe.data ELSE Len(pipe.src)) :
       pipe' = BytesSplitterWrite(
                 [pipe EXCEPT !.src = SubSeq(pipe.src, n + 1, Len(pipe.src)),
                              !.data = n],
                 SubSeq(pipe.src, 1, n))
  /\ UNCHANGED <<pc, a, b, c, v, x, y, z, res>>

\* The stages after the empty chunk of the last turn is written and
\* BytesSplitter.Flush has emptied the buffer.
flushed(p) ==
  BytesSplitterFlush(BytesSplitterWrite([p EXCEPT !.data = 0, !.closed = TRUE], <<>>))

\* The last turn of the loop of ByteReader.Consume: Read returns 0 and io.EOF,
\* the empty chunk is written and the stages are flushed.
DoConsumeEOF ==
  /\ pc = "consuming"
  /\ pipe.src = <<>>
  /\ \E sorted \in sortedDescending(flushed(pipe).all) :
       pipe' = VersionSorterFlush(flushed(pipe), sorted)
  /\ pc' = "exited"
  /\ UNCHANGED <<a, b, c, v, x, y, z, res>>

\* p.Write(d) on the splitter of main, for the next n bytes of the input.
DoSplitterWrite ==
  /\ pc = "splitting"
  /\ pipe.src # <<>>
  /\ \E n \in 1..Len(pipe.src) :
       pipe' = splitterWrite([pipe EXCEPT !.src = SubSeq(pipe.src, n + 1, Len(pipe.src))],
                             SubSeq(pipe.src, 1, n))
  /\ UNCHANGED <<pc, a, b, c, v, x, y, z, res>>

\* p.Flush() on the splitter of main, after the Writes.
DoSplitterFlush ==
  /\ pc = "splitting"
  /\ pipe' = splitterFlush(pipe)
  /\ pc' = "split"
  /\ UNCHANGED <<a, b, c, v, x, y, z, res>>

\* NewBytesSplitter(' ', '\n') connected to a stage that keeps its chunks.
InitSplitter ==
  /\ pc = "splitting"
  /\ a = Nil /\ b = Nil /\ c = Nil
  /\ v = NoVersion /\ x = NoVersion /\ y = NoVersion /\ z = NoVersion
  /\ res = NoResults
  /\ pipe \in {[input |-> i, src |-> i, buf |-> <<>>, chunks |-> <<>>] : i \in CliInputs}

NextSplitter == DoSplitterWrite \/ DoSplitterFlush

SpecSplitter == InitSplitter /\ [][NextSplitter]_vars

\* main with -s -d -f: the stages are connected and nothing is read yet.
InitCommand ==
  /\ pc = "consuming"
  /\ a = Nil /\ b = Nil /\ c = Nil
  /\ v = NoVersion /\ x = NoVersion /\ y = NoVersion /\ z = NoVersion
  /\ res = NoResults
  /\ pipe \in {[input |-> i, src |-> i, data |-> ReadBufferSize, closed |-> FALSE,
                buf |-> <<>>, all |-> <<>>, d |-> FALSE, sink |-> <<>>] :
                 i \in CliInputs}

NextCommand == DoConsumeRead \/ DoConsumeEOF

SpecCommand == InitCommand /\ [][NextCommand]_vars

\* a.Intersect(b) for the rangeConstraint a
DoRangeIntersect ==
  /\ pc = "constraints"
  /\ res' = [res EXCEPT !.set = rangeIntersect(a, b)]
  /\ pc' = "rangeIntersected"
  /\ UNCHANGED <<a, b, c, v, x, y, z, pipe>>

\* Intersection(a, b)
DoConstraintIntersection ==
  /\ pc = "constraints"
  /\ res' = [res EXCEPT !.set = ConstraintIntersection(<<a, b>>)]
  /\ pc' = "intersectionOfBoth"
  /\ UNCHANGED <<a, b, c, v, x, y, z, pipe>>

\* A rangeConstraint and a Constraint.
InitRange ==
  /\ pc = "constraints"
  /\ a \in Ranges
  /\ b \in ConstraintPool
  /\ c = Nil
  /\ v = NoVersion /\ x = NoVersion /\ y = NoVersion /\ z = NoVersion
  /\ res = NoResults
  /\ pipe = NoPipe

NextRange == DoRangeIntersect \/ DoConstraintIntersection

SpecRange == InitRange /\ [][NextRange]_vars

\* One pass of the inner loop of Intersection: intersect(ga, gb, includePre)
\* for a group ga of canonicalise(a) and a group gb of canonicalise(b).
DoIntersectGroups ==
  /\ pc = "start"
  /\ \E k \in 1..Len(canonicalise(a).constraints) :
       \E l \in 1..Len(canonicalise(b).constraints) :
         res' = [res EXCEPT
                   !.ga = canonicalise(a).constraints[k],
                   !.gb = canonicalise(b).constraints[l],
                   !.group = intersect(canonicalise(a).constraints[k],
                                       canonicalise(b).constraints[l],
                                       a.IncludePrerelease \/ b.IncludePrerelease)]
  /\ pc' = "groups"
  /\ UNCHANGED <<a, b, c, v, x, y, z, pipe>>

\* Two parsed constraints whose canonical groups are intersected one by one.
InitGroups ==
  /\ pc = "start"
  /\ a \in PairPool
  /\ b \in PairPool \cup Singles(AllAtoms)
  /\ c = Nil
  /\ v = NoVersion /\ x = NoVersion /\ y = NoVersion /\ z = NoVersion
  /\ res = NoResults
  /\ pipe = NoPipe

NextGroups == DoIntersectGroups

SpecGroups == InitGroups /\ [][NextGroups]_vars

\* canonicalise(a) and canonicalise(b)
DoCanonicaliseOperands ==
  /\ pc = "reversed"
  /\ res' = [res EXCEPT !.canon = canonicalise(a), !.canonB = canonicalise(b)]
  /\ pc' = "canonicalised"
  /\ UNCHANGED <<a, b, c, v, x, y, z, pipe>>

\* Two parsed constraints, their intersections in both orders and their
\* canonical forms.
NextOrder == DoIntersection \/ DoReverse \/ DoCanonicaliseOperands

SpecOrder == Init /\ [][NextOrder]_vars

\* bounds on the group of a and on the group of b
DoBounds ==
  /\ pc = "group"
  /\ res' = [res EXCEPT !.bd = bounds(a.constraints[1]),
                        !.bdRev = bounds(b.constraints[1])]
  /\ pc' = "bounded"
  /\ UNCHANGED <<a, b, c, v, x, y, z, pipe>>

\* simplify on the group of a, then check of w on every constraint of the
\* group and on every constraint of the result
DoSimplify ==
  /\ pc = "bounded"
  /\ \E w \in BoundsVersions :
       /\ v' = w
       /\ res' = [res EXCEPT
                    !.simple = simplify(a.constraints[1]),
                    !.chkAll = \A i \in 1..Len(a.constraints[1]) :
                                 check(a.constraints[1][i], w),
                    !.chkSimple = \A i \in 1..Len(simplify(a.constraints[1])) :
                                    check(simplify(a.constraints[1])[i], w)]
  /\ pc' = "simplified"
  /\ UNCHANGED <<a, b, c, x, y, z, pipe>>

\* A group of range constraints, and the same group in the opposite order.
InitBounds ==
  /\ pc = "group"
  /\ \E cs \in RangeLists : a = Parsed(<<cs>>) /\ b = Parsed(<<reversed(cs)>>)
  /\ c = Nil
  /\ v = NoVersion /\ x = NoVersion /\ y = NoVersion /\ z = NoVersion
  /\ res = NoResults
  /\ pipe = NoPipe

NextBounds == DoBounds \/ DoSimplify

SpecBounds == InitBounds /\ [][NextBounds]_vars

\* a.Validate(w) and a.Check(w)
DoValidate ==
  /\ pc = "start"
  /\ \E w \in ProbeVersions :
       /\ v' = w
       /\ res' = [res EXCEPT !.valid = Validate(a, w), !.chkA = Check(a, w)]
  /\ pc' = "validated"
  /\ UNCHANGED <<a, b, c, x, y, z, pipe>>

\* One parsed constraint, validated and checked on a version.
InitValidate ==
  /\ pc = "start"
  /\ a \in PairPool \cup Singles(AllAtoms)
  /\ b = Nil
  /\ c = Nil
  /\ v = NoVersion /\ x = NoVersion /\ y = NoVersion /\ z = NoVersion
  /\ res = NoResults
  /\ pipe = NoPipe

NextValidate == DoValidate

SpecValidate == InitValidate /\ [][NextValidate]_vars

\* One turn of the loop of ByteReader.Consume of "semver -valid" in which
\* Read returns n > 0 bytes.
DoConsumeValidRead ==
  /\ pc = "consuming"
  /\ pipe.src # <<>>
  /\ \E n \in 1..(IF pipe.data < Len(pipe.src) THEN pipe.data ELSE Len(pipe.src)) :
       pipe' = consumeTurn(pipe, n)
  /\ UNCHANGED <<pc, a, b, c, v, x, y, z, res>>

\* One turn of the loop in which Read returns 0 bytes, at the end of the
\* input: the loop is left only when the stages were flushed.
DoConsumeValidEOF ==
  /\ pc = "consuming"
  /\ pipe.src = <<>>
  /\ pipe' = consumeTurn(pipe, 0)
  /\ pc' = IF consumeTurn(pipe, 0).closed THEN "exited" ELSE "consuming"
  /\ UNCHANGED <<a, b, c, v, x, y, z, res>>

\* main with -valid: the stages are connected and nothing is read yet.
InitValid ==
  /\ pc = "consuming"
  /\ a = Nil /\ b = Nil /\ c = Nil
  /\ v = NoVersion /\ x = NoVersion /\ y = NoVersion /\ z = NoVersion
  /\ res = NoResults
  /\ pipe \in {[input |-> i, src |-> i, data |-> ReadBufferSize, closed |-> FALSE,
                buf |-> <<>>, sink |-> <<>>, werr |-> FALSE, failed |-> FALSE,
                flushes |-> 0, err |-> FALSE] :
                 i \in CliInputs}

NextValid == DoConsumeValidRead \/ DoConsumeValidEOF

SpecValid == InitValid /\ [][NextValid]_vars

\* Three versions and their comparisons.
InitCompare ==
  /\ pc = "versions"
  /\ a = Nil /\ b = Nil /\ c = Nil
  /\ v = NoVersion
  /\ \E p \in CompareVersions \X CompareVersions \X CompareVersions :
       x = p[1] /\ y = p[2] /\ z = p[3]
  /\ res = NoResults
  /\ pipe = NoPipe

NextCompare == DoCompare

SpecCompare == InitCompare /\ [][NextCompare]_vars

\* ------------------------------------------------------------------ claims

\* The texts "0.0.0", "0.0.1", "1.0.0", "1.0.0-b" and "1".
text000 == Tok(ZeroSeg, ZeroSeg, ZeroSeg, <<>>)
text001 == Tok(ZeroSeg, ZeroSeg, Itoa(1), <<>>)
text100 == Tok(Itoa(1), ZeroSeg, ZeroSeg, <<>>)
text100b == Tok(Itoa(1), ZeroSeg, ZeroSeg, preB)
text1 == Tok(Itoa(1), <<>>, <<>>, <<>>)

\* NewConstraint on a text of a single constraint.
One(op, t) == Parsed(<< <<parseConstraint(op, t)>> >>)

\* C1: for non-nil constraints a, b and a version v, Intersection(a, b)
\* admits v if and only if a admits v and b admits v.
C1_IntersectionIsMembershipOfBoth ==
  pc = "checked" => (res.chkInter <=> (res.chkA /\ res.chkB))

\* Intersection("!=1.0.0", ">=0.0.0") checked on 1.0.0: the result admits the
\* version that a excludes.
C1_NotEqualLost ==
  /\ pc = "checked"
  /\ a = One("!=", text100) /\ b = One(">=", text000) /\ v = NewVersion(text100)
  /\ res.chkInter /\ ~res.chkA /\ res.chkB

\* C2: subset soundness: when a admits v and IsSubset(a, b) is true, b
\* admits v.
C2_SubsetSoundness ==
  pc = "checked" => ((res.chkA /\ res.subset) => res.chkB)

\* IsSubset(">=1.0.0", ">=0.0.0 !=1.0.0") is true although only the first
\* admits 1.0.0.
C2_SubsetOfExcluding ==
  /\ pc = "checked"
  /\ a = One(">=", text100)
  /\ b = Parsed(<< <<parseConstraint(">=", text000), parseConstraint("!=", text100)>> >>)
  /\ v = NewVersion(text100)
  /\ res.subset /\ res.chkA /\ ~res.chkB

\* C3: subset completeness: when every version that sub (a) admits is
\* admitted by sup (b), IsSubset(a, b) is true, also when sup covers sub
\* through several of its groups.
C3_SubsetCompleteness ==
  (pc = "subset" /\ \A w \in Versions : Check(a, w) => Check(b, w)) => res.subset

\* IsSubset(">=0.0.0", ">=1.0.0 || <1.0.0") is false although the two groups
\* of sup together admit every version sub admits.
C3_CoveredByUnion ==
  /\ pc = "subset"
  /\ a = One(">=", text000)
  /\ b = Parsed(<< <<parseConstraint(">=", text100)>>, <<parseConstraint("<", text100)>> >>)
  /\ \A w \in Versions : Check(a, w) => Check(b, w)
  /\ \E w \in Versions : Check(a, w)
  /\ ~res.subset

\* C4: canonicalise preserves membership: a parsed constraint and its
\* canonical form admit the same versions, for every operator and every
\* wildcard shape.
C4_CanonicalisePreservesCheck ==
  pc = "checkedCanonical" => (res.chkA <=> res.chkCanon)

\* "^0.0.1" does not admit 0.0.2; its canonical form ">=0.0.1 <0.1.0" does.
C4_CaretPatch ==
  /\ pc = "checkedCanonical"
  /\ a = One("^", text001)
  /\ v = NewVersion(Tok(ZeroSeg, ZeroSeg, Itoa(2), <<>>))
  /\ ~res.chkA /\ res.chkCanon

\* C5: reflexivity: Intersection(a, a) renders as canonicalise(a) does, and
\* IsSubset(a, a) is true, for every operator.
C5_SelfIntersectionIsCanonical ==
  /\ pc \in {"self", "checkedCanonical"} => String(res.self) = String(res.canon)
  /\ pc = "self" => IsSubset(a, a)

\* Intersection("!=1.0.0", "!=1.0.0") renders as "" while canonicalise renders
\* "!=1.0.0".
C5_NotEqualSelf ==
  /\ pc = "self"
  /\ a = One("!=", text100)
  /\ String(res.self) = <<>>
  /\ String(res.canon) = string(parseConstraint("!=", text100))
  /\ ~IsSubset(a, a)

\* The rendered groups of a Constraints, as a set.
groupStrings(cs) == {groupString(cs.constraints[k]) : k \in 1..Len(cs.constraints)}

\* C6: commutativity: Intersection(a, b) and Intersection(b, a) have the same
\* groups, compared by rendered string, whatever their order.
C6_Commutative ==
  pc = "reversed" => groupStrings(res.inter) = groupStrings(res.rev)

\* Intersection(">1", ">1.0.0") is ">1" and Intersection(">1.0.0", ">1") is
\* ">1.0.0": different texts, and the second admits 1.0.1 while the first
\* does not.
C6_FirstOperandWins ==
  /\ pc = "reversed"
  /\ a = One(">", text1) /\ b = One(">", text100)
  /\ String(res.inter) = string(parseConstraint(">", text1))
  /\ String(res.rev) = string(parseConstraint(">", text100))
  /\ \E w \in Versions : Check(res.rev, w) /\ ~Check(res.inter, w)

\* C7: associativity: Intersection(Intersection(a, b), c) and
\* Intersection(a, Intersection(b, c)) render the same, also with exact
\* prerelease versions and ranges with or without prerelease pivots.
C7_Associative ==
  pc = "right" => String(res.left) = String(res.right)

\* a = "1.0.0-b", b = ">=1.0.0-b", c = ">=0.0.0": the left grouping renders ""
\* and the right grouping renders "1.0.0-b".
C7_PrereleaseGrouping ==
  /\ pc = "right"
  /\ a = One("", text100b) /\ b = One(">=", text100b) /\ c = One(">=", text000)
  /\ String(res.left) = <<>>
  /\ String(res.right) = string(parseConstraint("", text100b))

\* C8: the empty constraint admits no version, and Intersection(empty, x) and
\* Intersection(x, empty) are the empty constraint, which renders as "".
C8_EmptyAdmitsNothing ==
  a = Empty =>
    /\ pc \in {"intersected", "reversed", "subset", "checked"}
         => (res.inter = Empty /\ String(res.inter) = <<>>)
    /\ pc \in {"reversed", "subset", "checked"}
         => (res.rev = Empty /\ String(res.rev) = <<>>)
    /\ pc = "checked" => (~res.chkA /\ \A w \in Versions : ~Check(a, w))

\* The empty constraint against "^1", checked on a version "^1" admits.
C8_EmptyAgainstCaret ==
  /\ pc = "checked"
  /\ a = Empty /\ b = One("^", text1)
  /\ res.chkB /\ ~res.chkA /\ ~res.chkInter
  /\ String(res.inter) = <<>> /\ String(res.rev) = <<>>

\* C9: Compare is a total order: Compare(x, x) = 0, Compare(x, y) =
\* -Compare(y, x), and Compare(x, y) <= 0 with Compare(y, z) <= 0 gives
\* Compare(x, z) <= 0, also for prereleases of different lengths that mix
\* numeric and alphanumeric identifiers.
C9_CompareTotalOrder ==
  pc = "compared" =>
    /\ res.xx = 0
    /\ res.xy = -res.yx
    /\ (res.xy <= 0 /\ res.yz <= 0) => res.xz <= 0

\* A version with the major, minor and patch 1.0.0 and the given prerelease.
Pre100(pre) == NewVersion(Tok(Itoa(1), ZeroSeg, ZeroSeg, pre))

\* 1.0.0-a.b < 1.0.0-a < 1.0.0-a.2, yet 1.0.0-a.b > 1.0.0-a.2.
C9_BrokenChain ==
  /\ pc = "compared"
  /\ x = Pre100(preA \o chDot \o preB)
  /\ y = Pre100(preA)
  /\ z = Pre100(preA \o chDot \o Itoa(2))
  /\ res.xy = -1 /\ res.yz = -1 /\ res.xz = 1

\* The order of two prerelease identifiers as SemVer states it: numeric ones
\* by value, a numeric one below an alphanumeric one, alphanumeric ones as
\* strings.
identifierOrder(s, o) ==
  IF AllDigits(s) /\ AllDigits(o) THEN compareSegment(DigitsValue(s), DigitsValue(o))
  ELSE IF AllDigits(s) THEN -1
  ELSE IF AllDigits(o) THEN 1
  ELSE StrCmp(s, o)

\* The order of two lists of identifiers from index i on: the first
\* difference decides; with none, the shorter list is lower.
RECURSIVE prereleaseOrder(_, _, _)
prereleaseOrder(sparts, oparts, i) ==
  IF i > Len(sparts) /\ i > Len(oparts) THEN 0
  ELSE IF i > Len(sparts) THEN -1
  ELSE IF i > Len(oparts) THEN 1
  ELSE IF identifierOrder(sparts[i], oparts[i]) # 0
    THEN identifierOrder(sparts[i], oparts[i])
  ELSE prereleaseOrder(sparts, oparts, i + 1)

\* C10: for versions of equal major, minor and patch with both prereleases
\* non-empty, Compare orders the prereleases identifier by identifier:
\* numeric identifiers by value, numeric below non-numeric, non-numeric
\* lexicographically, and fewer identifiers lower when the shared ones agree.
C10_PrereleaseOrder ==
  (/\ pc = "compared"
   /\ x.major = y.major /\ x.minor = y.minor /\ x.patch = y.patch
   /\ x.pre # <<>> /\ y.pre # <<>>)
    => res.xy = prereleaseOrder(Split(x.pre), Split(y.pre), 1)

\* Compare(1.0.0-a.2, 1.0.0-a.10) is 1: the identifiers 2 and 10 are compared
\* as strings.
C10_NumericAsText ==
  /\ pc = "compared"
  /\ x = Pre100(preA \o chDot \o Itoa(2))
  /\ y = Pre100(preA \o chDot \o Itoa(10))
  /\ res.xy = 1 /\ res.yx = -1

\* C11: build metadata never influences order or equality: for x and z that
\* differ only in metadata, Compare(x, y) = Compare(z, y) and Compare(y, x) =
\* Compare(y, z); Check and IsSubset give the same result on operands that
\* differ only in metadata.
C11_MetadataIgnored ==
  /\ pc = "metadataCompared" => (res.xy = res.zy /\ res.yx = res.yz)
  /\ pc \in {"metadataChecked", "metadataCompared"}
       => (res.chkA = res.chkC /\ res.chkA = res.chkAz)
  /\ pc \in {"metadataSubset", "metadataChecked", "metadataCompared"}
       => (res.subAB = res.subCB /\ res.subBA = res.subBC)

\* sub = ">=1.0.0 || 1.0.0" is a subset of sup = "1.0.0 || >=1.0.0", but the
\* same sub written with metadata, ">=1.0.0+m || 1.0.0+m", is not.
C11_SubsetByMetadata ==
  /\ pc = "metadataSubset"
  /\ a = ParseText(<< <<<<">=", text100>>>>, <<<<"", text100>>>> >>)
  /\ c = ParseText(<< <<<<">=", WithMeta(text100, metaM)>>>>,
                      <<<<"", WithMeta(text100, metaM)>>>> >>)
  /\ b = ParseText(<< <<<<"", text100>>>>, <<<<">=", text100>>>> >>)
  /\ res.subAB /\ ~res.subCB

\* C12: for every version x reached from NewVersion by IncPatch, IncMinor,
\* IncMajor, IncPrerelease and SetPrelease, NewVersion(x.String()) returns no
\* error and a version with the major, minor, patch, prerelease and metadata
\* of x.
C12_VersionRoundTrip ==
  pc = "reparsed" =>
    /\ "err" \notin DOMAIN res.parsed
    /\ res.parsed.major = x.major
    /\ res.parsed.minor = x.minor
    /\ res.parsed.patch = x.patch
    /\ res.parsed.pre = x.pre
    /\ res.parsed.metadata = x.metadata

\* NewVersion("1") after SetPrelease("b_") reported success: String gives
\* "1.0.0-b_", which NewVersion rejects.
C12_SetPreleaseUnparsable ==
  /\ pc = "reparsed"
  /\ res.ok
  /\ x = [NewVersion(text1) EXCEPT !.pre = preB \o <<95>>]
  /\ res.str = VersionText(text100) \o chDash \o preB \o <<95>>
  /\ res.parsed = ErrInvalidSemVer

\* The one constraint of a.
atomOf(cs) == cs.constraints[1][1]

\* C13: without IncludePrerelease, a constraint of any operator whose version
\* has no prerelease rejects every version that has one.
C13_PrereleaseGate ==
  (/\ pc \in {"atomChecked", "atomExpanded"}
   /\ ~a.IncludePrerelease
   /\ atomOf(a).con.pre = <<>>
   /\ v.pre # <<>>)
    => (~res.chkAtom /\ ~res.chkA)

\* "!=1.0.0" checked on 1.0.0-b: admitted.
C13_NotEqualAdmitsPrerelease ==
  /\ pc = "atomChecked"
  /\ a = One("!=", text100)
  /\ v = NewVersion(text100b)
  /\ res.chkAtom /\ res.chkA

\* The conditions of the constraint c on the numbers of v: check on v without
\* its prerelease.
numericCheck(con, w) == check(con, [w EXCEPT !.pre = <<>>])

\* C14: with IncludePrerelease set, Check admits a version with a prerelease
\* that meets the numeric conditions of a constraint whose version has no
\* prerelease; without it the version is rejected.
C14_IncludePrerelease ==
  (/\ pc \in {"atomChecked", "atomExpanded"}
   /\ atomOf(a).con.pre = <<>>
   /\ v.pre # <<>>
   /\ numericCheck(atomOf(a), v))
    => (res.chkA <=> a.IncludePrerelease)

\* "^1.x" with IncludePrerelease set, checked on 1.1.1-b: rejected.
C14_CaretRejectsPrerelease ==
  /\ pc = "atomChecked"
  /\ a = [One("^", Tok(Itoa(1), chX, <<>>, <<>>)) EXCEPT !.IncludePrerelease = TRUE]
  /\ v = NewVersion(Tok(Itoa(1), Itoa(1), Itoa(1), preB))
  /\ ~res.chkA

\* The versions a caret constraint con is to admit among the releases.
caretAdmits(con, w) ==
  IF con.con.major > 0 \/ con.minorDirty
    THEN w.major = con.con.major /\ Compare(w, con.con) >= 0
  ELSE IF con.con.minor > 0 \/ con.patchDirty
    THEN w.major = 0 /\ w.minor = con.con.minor /\ Compare(w, con.con) >= 0
  ELSE Compare(w, con.con) = 0

\* C15: a ^ constraint admits a release version v exactly when v has the
\* pivot's major and is not below the pivot (pivot major > 0 or minor dirty),
\* or has major 0, the pivot's minor and is not below the pivot (pivot minor
\* > 0 or patch dirty), or equals the pivot (pivot 0.0.z, nothing dirty).
C15_CaretCheck ==
  (/\ pc \in {"atomChecked", "atomExpanded"}
   /\ atomOf(a).origfunc = "^"
   /\ v.pre = <<>>
   /\ (atomOf(a).dirty => (atomOf(a).minorDirty \/ atomOf(a).patchDirty)))
    => (res.chkAtom <=> caretAdmits(atomOf(a), v))

\* "^0.0.1" checked on 0.1.1: admitted.
C15_CaretPatchOnly ==
  /\ pc = "atomChecked"
  /\ a = One("^", text001)
  /\ v = NewVersion(Tok(ZeroSeg, Itoa(1), Itoa(1), <<>>))
  /\ res.chkAtom

\* C20: a constraint admits a version exactly when every constraint of its
\* expansion admits it.
C20_ExpansionEquivalence ==
  pc = "atomExpanded" => (res.chkAtom <=> res.chkExpanded)

\* "^0.0.1" expands to ">=0.0.1 <0.1.0", which admits 0.0.2; the constraint
\* does not.
C20_CaretPatchExpansion ==
  /\ pc = "atomExpanded"
  /\ a = One("^", text001)
  /\ v = NewVersion(Tok(ZeroSeg, ZeroSeg, Itoa(2), <<>>))
  /\ Len(res.expanded) = 2
  /\ string(res.expanded[2]) = OpText("<") \o VersionText(Tok(ZeroSeg, Itoa(1), ZeroSeg, <<>>))
  /\ ~res.chkAtom /\ res.chkExpanded

\* Some version of the pool is admitted by both constraints.
commonVersion(cs, cs2) == \E w \in Versions : Check(cs, w) /\ Check(cs2, w)

\* C16: a.Intersects(b) is true exactly when some version is admitted by
\* both a and b.
C16_IntersectsIffCommonVersion ==
  pc \in {"intersects", "intersectsReverse"}
    => (res.intersects <=> commonVersion(a, b))

\* "!=1.0.0" against ">1.0.0": both admit 2.0.0, Intersects returns false.
C16_NotEqualAgainstRange ==
  /\ pc = "intersects"
  /\ a = One("!=", text100)
  /\ b = One(">", text100)
  /\ Check(a, NewVersion(Tok(Itoa(2), ZeroSeg, ZeroSeg, <<>>)))
  /\ Check(b, NewVersion(Tok(Itoa(2), ZeroSeg, ZeroSeg, <<>>)))
  /\ ~res.intersects

\* The tokens of s between spaces and newlines.
RECURSIVE Fields(_)
Fields(s) ==
  IF \A i \in 1..Len(s) : s[i] \notin {32, 10} THEN (IF s = <<>> THEN {} ELSE {s})
  ELSE LET k == CHOOSE i \in 1..Len(s) :
                  s[i] \in {32, 10} /\ \A j \in 1..(i - 1) : s[j] \notin {32, 10}
       IN (IF k = 1 THEN {} ELSE {SubSeq(s, 1, k - 1)})
            \cup Fields(SubSeq(s, k + 1, Len(s)))

\* The valid versions among the tokens of s.
validVersions(s) ==
  {NewVersionString(t) : t \in {u \in Fields(s) : "err" \notin DOMAIN NewVersionString(u)}}

\* What the command is to write for the input s: the line of a greatest valid
\* version, nothing when there is none.
expectedSinks(s) ==
  IF validVersions(s) = {} THEN {<<>>}
  ELSE {prefixed(w) : w \in {u \in validVersions(s) :
                                \A t \in validVersions(s) : Compare(u, t) >= 0}}

\* C17: with sort, descending and first, the command writes exactly the line
\* of the greatest valid version among the tokens of its input; for the input
\* "1.0.4 1.1.1 1.2.2 2.3.4" that is "- 2.3.4\n".
C17_GreatestVersionEmitted ==
  pc = "exited" => pipe.sink \in expectedSinks(pipe.input)

\* The example's input as echo writes it, with a newline at the end: the
\* splitter writes "1.1.1 1.2.2 2.3.4" as one chunk, which is no version, and
\* the command writes "- 1.0.4\n".
C17_EchoedExample ==
  /\ pc = "exited"
  /\ pipe.input = ExampleInput \o <<10>>
  /\ pipe.sink = <<45, 32>> \o VersionText(Tok(Itoa(1), Itoa(0), Itoa(4), <<>>)) \o <<10>>

\* A range with the given bounds, both exclusive, nothing excluded.
rangeOf(lo, hi) ==
  [kind |-> "range", min |-> lo, max |-> hi, includeMin |-> FALSE,
   includeMax |-> FALSE, excl |-> <<>>]

\* C18: rangeConstraint.Intersect and Intersection return a Constraint for
\* every range, half-open ranges included; they never panic.
C18_NoPanic ==
  pc \in {"rangeIntersected", "intersectionOfBoth"} => res.set # Panic

\* {max: 1.0.0} intersected with {max: 1.1.0}: the call panics.
C18_HalfOpenPanics ==
  /\ pc = "rangeIntersected"
  /\ a = rangeOf(NoVersion, NewVersion(text100))
  /\ b = rangeOf(NoVersion, NewVersion(Tok(Itoa(1), Itoa(1), ZeroSeg, <<>>)))
  /\ res.set = Panic

\* C19: a rangeConstraint intersected with a version returns the version when
\* the range admits it and None when it does not.
C19_IntersectVersion ==
  (pc = "rangeIntersected" /\ b.kind = "version")
    => res.set = (IF rangeAdmits(a, b.v) THEN b ELSE None)

\* The range (1.0.0, 1.1.0] intersected with 1.1.0, which it admits: None.
C19_AdmittedVersionLost ==
  /\ pc = "rangeIntersected"
  /\ a = [rangeOf(NewVersion(text100), NewVersion(Tok(Itoa(1), Itoa(1), ZeroSeg, <<>>)))
            EXCEPT !.includeMax = TRUE]
  /\ b = versionConstraint(NewVersion(Tok(Itoa(1), Itoa(1), ZeroSeg, <<>>)))
  /\ rangeAdmits(a, b.v)
  /\ res.set = None

\* A group of exact constraints only.
pureExact(g) == g # <<>> /\ \A i \in 1..Len(g) : g[i].origfunc \in {"", "="}

\* The exact constraints of g whose version every constraint of the group
\* others admits under constraint.check.
admittedExact(g, others) ==
  SelectSeq(g, LAMBDA e : \A i \in 1..Len(others) : check(others[i], e.con))

\* C21: when one canonical group is pure-exact and the other holds range
\* constraints, intersect keeps exactly the exact versions that every
\* constraint of the other group admits under constraint.check.
C21_FilterExactIsCheck ==
  /\ (pc = "groups" /\ pureExact(res.ga) /\ ~pureExact(res.gb))
       => res.group = admittedExact(res.ga, res.gb)
  /\ (pc = "groups" /\ pureExact(res.gb) /\ ~pureExact(res.ga))
       => res.group = admittedExact(res.gb, res.ga)

\* "1.0.0" against "!=1.0.0": the exact version is kept.
C21_ExcludedExactKept ==
  /\ pc = "groups"
  /\ a = One("", text100)
  /\ b = One("!=", text100)
  /\ res.ga = a.constraints[1]
  /\ res.gb = b.constraints[1]
  /\ ~check(res.gb[1], res.ga[1].con)
  /\ res.group = res.ga

\* The groups of cs are strictly increasing by groupKey.
increasingKeys(cs) ==
  \A i \in 1..(Len(cs.constraints) - 1) :
    StrCmp(groupKey(cs.constraints[i]), groupKey(cs.constraints[i + 1])) < 0

\* C22: the groups of Intersection(a, b), in both orders, and of
\* canonicalise(a) and canonicalise(b) are strictly increasing by their group
\* key: sorted, and no two with the same text.
C22_GroupsSortedAndDistinct ==
  /\ pc \in {"intersected", "reversed", "canonicalised"} => increasingKeys(res.inter)
  /\ pc \in {"reversed", "canonicalised"} => increasingKeys(res.rev)
  /\ pc = "canonicalised" => increasingKeys(res.canon) /\ increasingKeys(res.canonB)

\* Operands written with their groups in decreasing order, and one with the
\* same group twice: the results have two groups and one group.
C22_ReorderedAndRepeated ==
  /\ pc = "canonicalised"
  /\ Len(a.constraints) = 2
  /\ StrCmp(groupKey(a.constraints[1]), groupKey(a.constraints[2])) > 0
  /\ Len(b.constraints) = 2
  /\ groupKey(b.constraints[1]) = groupKey(b.constraints[2])
  /\ Len(res.canon.constraints) = 2
  /\ Len(res.canonB.constraints) = 1
  /\ Len(res.inter.constraints) = 2

\* The number of constraints of the group g with an operator of ops.
countOps(g, ops) == Len(SelectSeq(g, LAMBDA e : e.origfunc \in ops))

\* The constraint e is one of the group g.
inGroup(e, g) == \E i \in 1..Len(g) : g[i] = e

\* An exact-equality constraint: the operator "" or "=" on a full version.
exactAtom(e) == e.origfunc \in {"", "="} /\ ~e.dirty

\* C23: every group of canonicalise(a) has at most one lower bound (> or >=)
\* and at most one upper bound (< or <=), and the group produced from a group
\* of a holds every exact-equality constraint of that group unchanged.
C23_BoundsReducedExactKept ==
  pc \in {"canonical", "self", "checkedCanonical"} =>
    /\ \A k \in 1..Len(res.canon.constraints) :
         /\ countOps(res.canon.constraints[k], {">", ">="}) <= 1
         /\ countOps(res.canon.constraints[k], {"<", "<="}) <= 1
    /\ (Len(a.constraints) = 1 /\ Len(res.canon.constraints) = 1) =>
         \A i \in 1..Len(a.constraints[1]) :
           exactAtom(a.constraints[1][i]) =>
             inGroup(a.constraints[1][i], res.canon.constraints[1])

\* "1.0.0 >=0.0.0": the group produced is ">=0.0.0" alone.
C23_ExactDropped ==
  /\ pc = "canonical"
  /\ a = Parsed(<< <<parseConstraint("", text100), parseConstraint(">=", text000)>> >>)
  /\ res.canon.constraints = << <<parseConstraint(">=", text000)>> >>

\* The bound bd, a sequence of at most one constraint, is the tightest of the
\* constraints of cs with an operator of ops: none when cs has none, else one
\* of them that no other beats, by pivot in direction dir and, on equal
\* pivots, by the exclusive operator excl.
tightest(bd, cs, ops, dir, excl) ==
  IF countOps(cs, ops) = 0 THEN bd = NoBound
  ELSE /\ bd # NoBound
       /\ inGroup(bd[1], cs)
       /\ bd[1].origfunc \in ops
       /\ \A i \in 1..Len(cs) :
            cs[i].origfunc \in ops =>
              /\ Compare(cs[i].con, bd[1].con) * dir <= 0
              /\ (Compare(cs[i].con, bd[1].con) = 0 /\ cs[i].origfunc = excl)
                   => bd[1].origfunc = excl

\* Two bounds with the same operator and pivot, or both none.
sameBound(bd, other) ==
  IF bd = NoBound \/ other = NoBound THEN bd = other
  ELSE bd[1].origfunc = other[1].origfunc /\ Compare(bd[1].con, other[1].con) = 0

\* C24: bounds returns the lower bound with the greatest pivot (> before >=
\* on equal pivots) and the upper bound with the least pivot (< before <=),
\* the same operator and pivot for the group in the opposite order, and the
\* result of simplify admits exactly the versions every constraint of the
\* group admits.
C24_TightestBounds ==
  /\ pc \in {"bounded", "simplified"} =>
       /\ tightest(res.bd.lo, a.constraints[1], {">", ">="}, 1, ">")
       /\ tightest(res.bd.hi, a.constraints[1], {"<", "<="}, -1, "<")
       /\ sameBound(res.bd.lo, res.bdRev.lo)
       /\ sameBound(res.bd.hi, res.bdRev.hi)
  /\ pc = "simplified" => res.chkSimple = res.chkAll

\* ">1.0.0 >1" simplified to ">1.0.0", which admits 1.1.0; ">1" does not.
C24_WildcardBoundLost ==
  /\ pc = "simplified"
  /\ a.constraints[1] = <<parseConstraint(">", text100), parseConstraint(">", text1)>>
  /\ res.simple = <<parseConstraint(">", text100)>>
  /\ v = NewVersion(Tok(Itoa(1), Itoa(1), ZeroSeg, <<>>))
  /\ res.chkSimple
  /\ ~res.chkAll

\* C25: IncPatch, IncMinor, IncMajor, IncPrerelease and SetPrelease leave the
\* major, minor, patch, prerelease and metadata of the receiver as they were.
C25_ReceiverUnchanged ==
  [][(pc = "version" /\ pc' = "version") =>
       /\ x'.major = x.major
       /\ x'.minor = x.minor
       /\ x'.patch = x.patch
       /\ x'.pre = x.pre
       /\ x'.metadata = x.metadata]_vars

\* The version parsed from "1.0.1" after IncPatch: the receiver holds patch 2.
C25_ReceiverIncremented ==
  /\ pc = "version"
  /\ x.original = VersionText(Tok(Itoa(1), ZeroSeg, Itoa(MaxSeg), <<>>))
  /\ x.major = 1 /\ x.minor = 0 /\ x.patch = MaxSeg + 1
  /\ res.ok

\* The number of prerelease messages among the errors.
prereleaseMessages(errors) ==
  Len(SelectSeq(errors, LAMBDA e : e.msg = PrereleaseMessage))

\* C26: Validate returns the boolean Check returns; with true the error list
\* is empty, with false it is not empty and holds the prerelease message at
\* most once.
C26_ValidateAgreesWithCheck ==
  pc = "validated" =>
    /\ res.valid.ok = res.chkA
    /\ res.valid.ok => res.valid.errors = <<>>
    /\ (~res.valid.ok /\ Len(a.constraints) > 0) =>
         /\ res.valid.errors # <<>>
         /\ prereleaseMessages(res.valid.errors) <= 1

\* "!=1.0.0" on 1.0.0-b: Check is true, Validate false with the prerelease
\* message.
C26_NotEqualPrerelease ==
  /\ pc = "validated"
  /\ a = One("!=", text100)
  /\ v = NewVersion(text100b)
  /\ res.chkA
  /\ ~res.valid.ok
  /\ prereleaseMessages(res.valid.errors) = 1

\* C27: Consume returns for every input that ends, having flushed the
\* connected stages exactly once, and returns the error when a Write of an
\* invalid version has failed. The loop is deterministic once the input is
\* read, so it returns only if no turn at the end of the input leaves the
\* reader and the stages exactly as they were.
C27_ConsumeTerminates ==
  /\ (pc = "consuming" /\ pipe.src = <<>>) => consumeTurn(pipe, 0) # pipe
  /\ pc = "exited" => pipe.flushes = 1
  /\ (pc = "exited" /\ pipe.failed) => pipe.err

\* "x 1" under -valid, read to its end: the word is still in the buffer of
\* the splitter, every Write fails and the loop is not left.
C27_StuckOnInvalid ==
  /\ pc = "consuming"
  /\ pipe.input = chX \o chSpace \o Itoa(1)
  /\ pipe.src = <<>>
  /\ pipe.data = 0
  /\ pipe.failed
  /\ ~pipe.closed
  /\ pipe.flushes = 0
  /\ consumeTurn(pipe, 0) = pipe

\* The bytes written to the splitter so far.
written(p) == SubSeq(p.input, 1, Len(p.input) - Len(p.src))

\* The length of the longest prefix of s without a separator.
RECURSIVE tokenLen(_)
tokenLen(s) ==
  IF s = <<>> \/ Head(s) \in {32, 10} THEN 0 ELSE 1 + tokenLen(Tail(s))

\* The maximal non-empty substrings of s without a separator, in order.
RECURSIVE tokens(_)
tokens(s) ==
  IF s = <<>> THEN <<>>
  ELSE IF Head(s) \in {32, 10} THEN tokens(Tail(s))
  ELSE <<SubSeq(s, 1, tokenLen(s))>> \o tokens(SubSeq(s, tokenLen(s) + 1, Len(s)))

\* C28: after any Writes and one Flush, the chunks the splitter has written
\* are exactly the maximal non-empty substrings of the bytes written that
\* hold neither ' ' nor '\n', in the order of the input.
C28_ChunksAreTokens ==
  pc = "split" => pipe.chunks = tokens(written(pipe))

\* "1\n1 1" written and flushed: a chunk holds the newline.
C28_NewlineInChunk ==
  /\ pc = "split"
  /\ pipe.input = Itoa(1) \o <<10>> \o Itoa(1) \o chSpace \o Itoa(1)
  /\ pipe.src = <<>>
  /\ \E i \in 1..Len(pipe.chunks) : 10 \in {pipe.chunks[i][k] : k \in 1..Len(pipe.chunks[i])}

\* A segment of a constraint text that is absent or a wildcard.
segmentOpen(seg) == isX(seg) \/ seg = <<>>

\* The flags of the constraint e are those the segments of the text t call
\* for.
flagsOfText(e, t) ==
  /\ e.minorDirty = segmentOpen(t.minor)
  /\ e.patchDirty = segmentOpen(t.patch)
  /\ e.dirty = (segmentOpen(t.major) \/ segmentOpen(t.minor) \/ segmentOpen(t.patch))

\* The flags of the constraint e are set on every constraint of its expansion.
flagsKept(e, expanded) ==
  \A i \in 1..Len(expanded) :
    /\ e.minorDirty => expanded[i].minorDirty
    /\ e.patchDirty => expanded[i].patchDirty
    /\ e.dirty => expanded[i].dirty

\* C29: a parsed constraint has minorDirty exactly when the minor segment of
\* its text is absent or a wildcard, patchDirty exactly when the patch segment
\* is, and dirty exactly when any segment is; the constraints expandConstraint
\* makes of it have the flags it has.
C29_DirtyFlagsFollowSegments ==
  \A op \in Ops : \A t \in FullTexts \cup DirtyTexts :
    (pc \in {"atom", "atomChecked", "atomExpanded"}
       /\ a.constraints[1][1] = parseConstraint(op, t))
      => /\ flagsOfText(a.constraints[1][1], t)
         /\ pc = "atomExpanded" => flagsKept(a.constraints[1][1], res.expanded)

\* "1.x" parsed and expanded: minorDirty is set and patchDirty is not, and the
\* expansion ">=1.0.0 <2.0.0" has no flag set.
C29_OnlyMinorDirty ==
  /\ pc = "atomExpanded"
  /\ a.constraints[1][1] = parseConstraint("", Tok(Itoa(1), chX, <<>>, <<>>))
  /\ a.constraints[1][1].minorDirty
  /\ ~a.constraints[1][1].patchDirty
  /\ Len(res.expanded) = 2
  /\ \A i \in 1..2 : ~res.expanded[i].dirty /\ ~res.expanded[i].minorDirty

\* C30: a call of IncPatch, IncMinor, IncMajor or IncPrerelease that returns
\* true leaves a version that Compare ranks above the version before the
\* call, and a call of IncPrerelease that returns false leaves the version as
\* it was.
C30_IncrementIsGreater ==
  [][(DoIncPatch \/ DoIncMinor \/ DoIncMajor \/ DoIncPrerelease)
       => /\ res'.ok => Compare(x', x) > 0
          /\ ~res'.ok => x' = x]_vars

\* "b9" incremented to "b10": Compare ranks the version below the one it was.
C30_NineToTen ==
  /\ pc = "version"
  /\ res.ok
  /\ x.pre = preB \o Itoa(10)
  /\ Compare(x, [x EXCEPT !.pre = preB \o Itoa(9)]) < 0

====
